---- MODULE Spec2Model ----
(***************************************************************************)
(* Universal Integer System: the code registry, the Discovery &            *)
(* Translation Engine (discovery.py), its request handler and the          *)
(* Learning Service (self_sustaining.py), modelled as a state machine.     *)
(*                                                                         *)
(* Python values are tagged records [t |-> <type name>, v |-> <payload>];  *)
(* a Python dict with string keys is a TLA+ function/record, a list is a   *)
(* sequence, a str is a TLA+ string (TLC treats strings as sequences of    *)
(* one-character strings).                                                 *)
(***************************************************************************)
EXTENDS Integers, Sequences, FiniteSets, TLC

\* ---------------------------------------------------------------------------
\* Python str methods used by the source
\* ---------------------------------------------------------------------------
UpperChars == "ABCDEFGHIJKLMNOPQRSTUVWXYZ"

LowerChars == "abcdefghijklmnopqrstuvwxyz"

DigitChars == "0123456789"

WhitespaceChars == {" ", "\t", "\n", "\r", "\f"}

CharAt(s, i) == SubSeq(s, i, i)

CharsOf(s) == {CharAt(s, i) : i \in 1..Len(s)}

IndexIn(alphabet, c) ==
  IF \E i \in 1..Len(alphabet) : CharAt(alphabet, i) = c
  THEN CHOOSE i \in 1..Len(alphabet) : CharAt(alphabet, i) = c
  ELSE 0

\* the lower-case letter of each upper-case letter, and the converse
LowerOf == [c \in CharsOf(UpperChars) |-> CharAt(LowerChars, IndexIn(UpperChars, c))]

UpperOf == [c \in CharsOf(LowerChars) |-> CharAt(UpperChars, IndexIn(LowerChars, c))]

LowerChar(c) == IF c \in DOMAIN LowerOf THEN LowerOf[c] ELSE c

UpperChar(c) == IF c \in DOMAIN UpperOf THEN UpperOf[c] ELSE c

AlnumChars == CharsOf(UpperChars) \cup CharsOf(LowerChars) \cup CharsOf(DigitChars)

RECURSIVE Lower(_)
\* str.lower()
Lower(s) ==
  IF Len(s) = 0 THEN ""
  ELSE IF Len(s) = 1 THEN LowerChar(s)
  ELSE Lower(SubSeq(s, 1, Len(s) \div 2)) \o Lower(SubSeq(s, Len(s) \div 2 + 1, Len(s)))

RECURSIVE Upper(_)
\* str.upper()
Upper(s) ==
  IF Len(s) = 0 THEN ""
  ELSE IF Len(s) = 1 THEN UpperChar(s)
  ELSE Upper(SubSeq(s, 1, Len(s) \div 2)) \o Upper(SubSeq(s, Len(s) \div 2 + 1, Len(s)))

\* s.lstrip(): drop the leading whitespace
LStrip(s) ==
  IF \A i \in 1..Len(s) : CharAt(s, i) \in WhitespaceChars THEN ""
  ELSE SubSeq(s, CHOOSE i \in 1..Len(s) :
                   /\ CharAt(s, i) \notin WhitespaceChars
                   /\ \A j \in 1..(i - 1) : CharAt(s, j) \in WhitespaceChars,
              Len(s))

\* s.rstrip(): drop the trailing whitespace
RStrip(s) ==
  IF \A i \in 1..Len(s) : CharAt(s, i) \in WhitespaceChars THEN ""
  ELSE SubSeq(s, 1, CHOOSE i \in 1..Len(s) :
                      /\ CharAt(s, i) \notin WhitespaceChars
                      /\ \A j \in (i + 1)..Len(s) : CharAt(s, j) \in WhitespaceChars)

\* str.strip()
Strip(s) == RStrip(LStrip(s))

\* str.startswith(prefix)
StartsWith(s, prefix) == Len(s) >= Len(prefix) /\ SubSeq(s, 1, Len(prefix)) = prefix

\* sub in s
Contains(s, sub) ==
  \/ Len(sub) = 0
  \/ \E i \in 1..(Len(s) - Len(sub) + 1) : SubSeq(s, i, i + Len(sub) - 1) = sub

\* s[n:]
SliceFrom(s, n) == IF n >= Len(s) THEN "" ELSE SubSeq(s, n + 1, Len(s))

RECURSIVE RemoveChar(_, _)
\* s.replace(c, '') for a one-character c
RemoveChar(s, c) ==
  IF Len(s) = 0 THEN ""
  ELSE IF Len(s) = 1 THEN (IF s = c THEN "" ELSE s)
  ELSE RemoveChar(SubSeq(s, 1, Len(s) \div 2), c)
         \o RemoveChar(SubSeq(s, Len(s) \div 2 + 1, Len(s)), c)

IsAlnumChar(c) == c \in AlnumChars

\* str.isalnum(): non-empty and every character alphanumeric
IsAlnum(s) == Len(s) > 0 /\ \A i \in 1..Len(s) : IsAlnumChar(CharAt(s, i))

\* str.isdigit(): non-empty and every character a digit
IsDigit(s) == Len(s) > 0 /\ \A i \in 1..Len(s) : CharAt(s, i) \in CharsOf(DigitChars)

RECURSIVE DigitsValue(_)
DigitsValue(s) ==
  IF Len(s) = 0 THEN 0
  ELSE 10 * DigitsValue(SubSeq(s, 1, Len(s) - 1)) + (IndexIn(DigitChars, CharAt(s, Len(s))) - 1)

\* int(s) succeeds: optional surrounding whitespace, optional sign, digits
IsIntLiteral(s) ==
  LET b == Strip(s)
      d == IF Len(b) > 0 /\ CharAt(b, 1) \in {"+", "-"} THEN SubSeq(b, 2, Len(b)) ELSE b
  IN IsDigit(d)

\* int(s) for a string accepted by IsIntLiteral
IntOfStr(s) ==
  LET b == Strip(s)
  IN IF Len(b) > 0 /\ CharAt(b, 1) = "-" THEN 0 - DigitsValue(SubSeq(b, 2, Len(b)))
     ELSE IF Len(b) > 0 /\ CharAt(b, 1) = "+" THEN DigitsValue(SubSeq(b, 2, Len(b)))
     ELSE DigitsValue(b)

RECURSIVE SplitWs(_, _)
\* str.split(): split on runs of whitespace, no empty tokens;
\* cur is the token being collected
SplitWs(s, cur) ==
  IF Len(s) = 0 THEN (IF Len(cur) = 0 THEN <<>> ELSE <<cur>>)
  ELSE IF CharAt(s, 1) \in WhitespaceChars
       THEN (IF Len(cur) = 0 THEN <<>> ELSE <<cur>>) \o SplitWs(SubSeq(s, 2, Len(s)), "")
       ELSE SplitWs(SubSeq(s, 2, Len(s)), cur \o CharAt(s, 1))

Split(s) == SplitWs(s, "")

RECURSIVE Repeat(_, _)
\* s * n
Repeat(s, n) ==
  IF n <= 0 THEN ""
  ELSE IF n = 1 THEN s
  ELSE Repeat(s, n \div 2) \o Repeat(s, n - n \div 2)

\* ---------------------------------------------------------------------------
\* Python values and call outcomes
\* ---------------------------------------------------------------------------
PyInt(n) == [t |-> "int", v |-> n]

PyStr(s) == [t |-> "str", v |-> s]

PyNone == [t |-> "NoneType"]

PyList(items) == [t |-> "list", v |-> items]

PyDict(d) == [t |-> "dict", v |-> d]

PyFloat(tenths) == [t |-> "float", v |-> tenths]

\* An empty Python dict (a function with no keys)
EmptyDict == [k \in {} |-> 0]

\* d[k] = v on a dict held as [order |-> <<keys in insertion order>>, entry |-> [key -> value]]
DictSet(d, k, v) ==
  IF k \in DOMAIN d.entry
  THEN [d EXCEPT !.entry[k] = v]
  ELSE [order |-> Append(d.order, k), entry |-> (k :> v) @@ d.entry]

\* A call that returned val, leaving the object it ran on as self
Return(self, val) == [self |-> self, raised |-> FALSE, val |-> val]

\* A call that raised exception exc with str(e) = msg
Raise(self, exc, msg) == [self |-> self, raised |-> TRUE, exc |-> exc, msg |-> msg]

\* hash(x) succeeds
Hashable(x) == x.t \notin {"list", "dict"}

\* TypeError raised by 'int <= x' for a non-numeric x
CompareErrorMsg(x) == "'<=' not supported between instances of 'int' and '" \o x.t \o "'"

UnhashableMsg(x) == "unhashable type: '" \o x.t \o "'"

\* ---------------------------------------------------------------------------
\* The Universal Code Registry (universal_integer_system.py): every IntEnum
\* group with its declared members <<NAME, value>> in declaration order,
\* aliases (a value repeated inside one group) included.  dir(uis) lists the
\* module's names sorted, so _discover_all_codes visits the groups in this
\* order (upper-case letters sort before lower-case ones).
\* ---------------------------------------------------------------------------
IntEnumClasses ==
  <<
    \* class AIAgentEvent(IntEnum), lines 1637-1675
    [name |-> "AIAgentEvent", members |-> <<
      <<"AGENT_CREATED", 5500>>, <<"AGENT_INITIALIZED", 5501>>, <<"AGENT_STARTED", 5502>>,
      <<"AGENT_READY", 5503>>, <<"AGENT_BUSY", 5504>>, <<"AGENT_IDLE", 5505>>,
      <<"AGENT_STOPPED", 5506>>, <<"AGENT_TERMINATED", 5507>>,
      <<"AGENT_RECEIVED_MESSAGE", 5520>>, <<"AGENT_PROCESSING", 5521>>,
      <<"AGENT_RESPONDED", 5522>>, <<"AGENT_DELEGATED", 5523>>, <<"AGENT_ESCALATED", 5524>>,
      <<"AGENT_COLLABORATED", 5525>>, <<"AGENT_LEARNED", 5540>>, <<"AGENT_ADAPTED", 5541>>,
      <<"AGENT_IMPROVED", 5542>>, <<"PATTERN_RECOGNIZED", 5543>>, <<"BEHAVIOR_MODIFIED", 5544>>,
      <<"SKILL_ACQUIRED", 5545>>, <<"CONTEXT_LOADED", 5560>>, <<"CONTEXT_SAVED", 5561>>,
      <<"MEMORY_UPDATED", 5562>>, <<"STATE_CHECKPOINT", 5563>>, <<"PERSONALITY_ADJUSTED", 5564>>,
      <<"GOAL_UPDATED", 5565>>>>],
    \* class AIAgentType(IntEnum), lines 1597-1631
    [name |-> "AIAgentType", members |-> <<
      <<"CHAT_AGENT", 5400>>, <<"VOICE_ASSISTANT", 5401>>, <<"CUSTOMER_SERVICE", 5402>>,
      <<"PERSONAL_ASSISTANT", 5403>>, <<"THERAPY_AGENT", 5404>>, <<"EDUCATION_AGENT", 5405>>,
      <<"CODE_AGENT", 5420>>, <<"RESEARCH_AGENT", 5421>>, <<"ANALYSIS_AGENT", 5422>>,
      <<"WRITING_AGENT", 5423>>, <<"DESIGN_AGENT", 5424>>, <<"PLANNING_AGENT", 5425>>,
      <<"TRADING_AGENT", 5440>>, <<"MEDICAL_AGENT", 5441>>, <<"LEGAL_AGENT", 5442>>,
      <<"CREATIVE_AGENT", 5443>>, <<"GAMING_AGENT", 5444>>, <<"MONITORING_AGENT", 5460>>,
      <<"SECURITY_AGENT", 5461>>, <<"OPTIMIZATION_AGENT", 5462>>,
      <<"ORCHESTRATION_AGENT", 5463>>, <<"LEARNING_AGENT", 5464>>>>],
    \* class AIModelType(IntEnum), lines 1475-1508
    [name |-> "AIModelType", members |-> <<
      <<"GPT", 5000>>, <<"BERT", 5001>>, <<"T5", 5002>>, <<"LLAMA", 5003>>, <<"CLAUDE", 5004>>,
      <<"GEMINI", 5005>>, <<"CNN", 5020>>, <<"YOLO", 5021>>, <<"RESNET", 5022>>, <<"VIT", 5023>>,
      <<"GAN", 5024>>, <<"RNN", 5040>>, <<"LSTM", 5041>>, <<"TRANSFORMER", 5042>>,
      <<"DIFFUSION", 5043>>, <<"VAE", 5044>>, <<"RECOMMENDATION", 5060>>,
      <<"CLASSIFICATION", 5061>>, <<"REGRESSION", 5062>>, <<"CLUSTERING", 5063>>,
      <<"ANOMALY_DETECTION", 5064>>>>],
    \* class AIOperation(IntEnum), lines 1514-1549
    [name |-> "AIOperation", members |-> <<
      <<"TRAINING_STARTED", 5100>>, <<"TRAINING_EPOCH", 5101>>, <<"TRAINING_CHECKPOINT", 5102>>,
      <<"TRAINING_COMPLETED", 5103>>, <<"TRAINING_FAILED", 5104>>,
      <<"VALIDATION_PERFORMED", 5105>>, <<"INFERENCE_REQUESTED", 5120>>,
      <<"INFERENCE_STARTED", 5121>>, <<"INFERENCE_COMPLETED", 5122>>,
      <<"INFERENCE_FAILED", 5123>>, <<"BATCH_INFERENCE", 5124>>, <<"STREAMING_INFERENCE", 5125>>,
      <<"MODEL_LOADED", 5140>>, <<"MODEL_UNLOADED", 5141>>, <<"MODEL_DEPLOYED", 5142>>,
      <<"MODEL_VERSIONED", 5143>>, <<"MODEL_ARCHIVED", 5144>>, <<"MODEL_OPTIMIZED", 5145>>,
      <<"DATA_PREPROCESSING", 5160>>, <<"DATA_AUGMENTATION", 5161>>,
      <<"FEATURE_EXTRACTION", 5162>>, <<"EMBEDDING_GENERATED", 5163>>, <<"TOKENIZATION", 5164>>>>],
    \* class AITrainingEvent(IntEnum), lines 1555-1591
    [name |-> "AITrainingEvent", members |-> <<
      <<"DATASET_LOADED", 5200>>, <<"DATASET_SPLIT", 5201>>, <<"HYPERPARAMETER_SET", 5202>>,
      <<"OPTIMIZER_INITIALIZED", 5203>>, <<"LOSS_CALCULATED", 5204>>,
      <<"GRADIENT_COMPUTED", 5205>>, <<"WEIGHTS_UPDATED", 5206>>, <<"EPOCH_STARTED", 5220>>,
      <<"EPOCH_COMPLETED", 5221>>, <<"BATCH_PROCESSED", 5222>>,
      <<"LEARNING_RATE_ADJUSTED", 5223>>, <<"EARLY_STOPPING", 5224>>,
      <<"CONVERGENCE_DETECTED", 5225>>, <<"VALIDATION_STARTED", 5240>>, <<"TEST_STARTED", 5241>>,
      <<"METRIC_CALCULATED", 5242>>, <<"ACCURACY_IMPROVED", 5243>>,
      <<"OVERFITTING_DETECTED", 5244>>, <<"UNDERFITTING_DETECTED", 5245>>,
      <<"GPU_ALLOCATED", 5260>>, <<"GPU_MEMORY_FULL", 5261>>, <<"DISTRIBUTED_TRAINING", 5262>>,
      <<"CHECKPOINT_SAVED", 5263>>, <<"TRAINING_RESUMED", 5264>>>>],
    \* class APIIntegration(IntEnum), lines 2471-2507
    [name |-> "APIIntegration", members |-> <<
      <<"API_REGISTERED", 8000>>, <<"API_DEPLOYED", 8001>>, <<"API_UPDATED", 8002>>,
      <<"API_DEPRECATED", 8003>>, <<"API_RETIRED", 8004>>, <<"API_VERSIONED", 8005>>,
      <<"API_REQUEST", 8020>>, <<"API_RESPONSE", 8021>>, <<"API_ERROR", 8022>>,
      <<"API_TIMEOUT", 8023>>, <<"API_RATE_LIMITED", 8024>>, <<"API_THROTTLED", 8025>>,
      <<"API_AUTHENTICATED", 8040>>, <<"API_AUTHORIZED", 8041>>, <<"API_UNAUTHORIZED", 8042>>,
      <<"API_KEY_GENERATED", 8043>>, <<"API_KEY_REVOKED", 8044>>, <<"API_TOKEN_EXPIRED", 8045>>,
      <<"ENDPOINT_CREATED", 8060>>, <<"ENDPOINT_UPDATED", 8061>>, <<"ENDPOINT_DELETED", 8062>>,
      <<"ROUTE_CONFIGURED", 8063>>, <<"POLICY_APPLIED", 8064>>, <<"QUOTA_ENFORCED", 8065>>>>],
    \* class AlertType(IntEnum), lines 2304-2338
    [name |-> "AlertType", members |-> <<
      <<"INFO_ALERT", 7400>>, <<"WARNING_ALERT", 7401>>, <<"ERROR_ALERT", 7402>>,
      <<"CRITICAL_ALERT", 7403>>, <<"EMERGENCY_ALERT", 7404>>, <<"PERFORMANCE_ALERT", 7420>>,
      <<"AVAILABILITY_ALERT", 7421>>, <<"SECURITY_ALERT", 7422>>, <<"CAPACITY_ALERT", 7423>>,
      <<"COMPLIANCE_ALERT", 7424>>, <<"BUSINESS_ALERT", 7425>>, <<"ALERT_TRIGGERED", 7440>>,
      <<"ALERT_ACKNOWLEDGED", 7441>>, <<"ALERT_ESCALATED", 7442>>, <<"ALERT_RESOLVED", 7443>>,
      <<"ALERT_EXPIRED", 7444>>, <<"ALERT_SUPPRESSED", 7445>>, <<"NOTIFICATION_SENT", 7460>>,
      <<"INCIDENT_CREATED", 7461>>, <<"RUNBOOK_EXECUTED", 7462>>, <<"AUTO_REMEDIATION", 7463>>,
      <<"MANUAL_INTERVENTION", 7464>>>>],
    \* class AppType(IntEnum), lines 2930-3016
    [name |-> "AppType", members |-> <<
      <<"LIFE_COACH", 16000>>, <<"THERAPIST", 16001>>, <<"FITNESS", 16002>>,
      <<"COUPLES", 16003>>, <<"COMPANION", 16004>>, <<"CAREER_STRATEGIST", 16005>>,
      <<"EXECUTIVE_COACH", 16006>>, <<"FINANCIAL_WELLNESS", 16007>>,
      <<"SPIRITUAL_GUIDE", 16008>>, <<"ACCOUNTABILITY_PARTNER", 16009>>,
      <<"CREATIVITY_COACH", 16010>>, <<"PARENT_COACH", 16011>>, <<"TRANSITION_GUIDE", 16012>>,
      <<"PERFORMANCE_COACH", 16013>>, <<"HABITS_TRACKER", 16014>>, <<"NUTRITION_COACH", 16015>>,
      <<"SLEEP_COACH", 16016>>, <<"STRESS_MANAGEMENT", 16017>>, <<"ADDICTION_RECOVERY", 16018>>,
      <<"CHRONIC_ILLNESS", 16019>>, <<"MENTAL_HEALTH", 16020>>, <<"STUDY_COACH", 16021>>,
      <<"LANGUAGE_COACH", 16022>>, <<"SKILL_DEVELOPMENT", 16023>>, <<"READING_COACH", 16024>>,
      <<"MEMORY_COACH", 16025>>, <<"DATING_COACH", 16030>>, <<"FAMILY_COACH", 16031>>,
      <<"SOCIAL_SKILLS", 16032>>, <<"DIVORCE_COACH", 16033>>, <<"CONFLICT_RESOLUTION", 16034>>,
      <<"PREPPER_COACH", 16040>>, <<"RETIREMENT_COACH", 16041>>, <<"STUDENT_COACH", 16042>>,
      <<"AGING_COACH", 16043>>, <<"GRIEF_COUNSELOR", 16044>>, <<"TRAUMA_RECOVERY", 16045>>,
      <<"CRISIS_SUPPORT", 16046>>, <<"ENTREPRENEUR_COACH", 16050>>,
      <<"REMOTE_WORK_COACH", 16051>>, <<"COMMUNICATION_COACH", 16052>>,
      <<"DECISION_COACH", 16053>>, <<"PROCRASTINATION_COACH", 16054>>,
      <<"CONFIDENCE_COACH", 16055>>, <<"TRAVEL_COACH", 16060>>, <<"HOBBY_COACH", 16061>>,
      <<"MINIMALISM_COACH", 16062>>, <<"SUSTAINABILITY_COACH", 16063>>,
      <<"DIGITAL_WELLNESS", 16064>>, <<"CUSTOM_COACH", 16070>>, <<"ADMIN_DASHBOARD", 16200>>,
      <<"ANALYTICS_HUB", 16201>>, <<"COACH_TRAINING", 16202>>, <<"USER_ONBOARDING", 16203>>,
      <<"API_GATEWAY", 16300>>, <<"WEBHOOK_MANAGER", 16301>>, <<"DATA_SYNC", 16302>>,
      <<"ZAPIER_CONNECTOR", 16200>>, <<"SLACK_INTEGRATION", 16201>>,
      <<"TEAMS_INTEGRATION", 16202>>, <<"DISCORD_BOT", 16203>>>>],
    \* class AuthenticationEvent(IntEnum), lines 724-763
    [name |-> "AuthenticationEvent", members |-> <<
      <<"LOGIN_ATTEMPTED", 1300>>, <<"LOGIN_SUCCEEDED", 1301>>, <<"LOGIN_FAILED", 1302>>,
      <<"LOGIN_BLOCKED", 1303>>, <<"LOGIN_RATE_LIMITED", 1304>>, <<"LOGOUT_INITIATED", 1305>>,
      <<"LOGOUT_COMPLETED", 1306>>, <<"TOKEN_ISSUED", 1320>>, <<"TOKEN_VALIDATED", 1321>>,
      <<"TOKEN_REFRESHED", 1322>>, <<"TOKEN_EXPIRED", 1323>>, <<"TOKEN_REVOKED", 1324>>,
      <<"TOKEN_BLACKLISTED", 1325>>, <<"PASSWORD_RESET_REQUESTED", 1340>>,
      <<"PASSWORD_RESET_COMPLETED", 1341>>, <<"PASSWORD_CHANGED", 1342>>,
      <<"ACCOUNT_LOCKED", 1343>>, <<"ACCOUNT_UNLOCKED", 1344>>, <<"SUSPICIOUS_ACTIVITY", 1345>>,
      <<"BRUTE_FORCE_DETECTED", 1346>>, <<"MFA_CHALLENGED", 1360>>, <<"MFA_VERIFIED", 1361>>,
      <<"MFA_FAILED", 1362>>, <<"MFA_ENABLED", 1363>>, <<"MFA_DISABLED", 1364>>,
      <<"MFA_METHOD_ADDED", 1365>>, <<"MFA_METHOD_REMOVED", 1366>>>>],
    \* class AuthenticationMethod(IntEnum), lines 676-718
    [name |-> "AuthenticationMethod", members |-> <<
      <<"PASSWORD", 1200>>, <<"PIN", 1201>>, <<"BIOMETRIC", 1202>>, <<"TWO_FACTOR", 1203>>,
      <<"MULTI_FACTOR", 1204>>, <<"PASSWORDLESS", 1205>>, <<"MAGIC_LINK", 1206>>,
      <<"SESSION_TOKEN", 1220>>, <<"JWT", 1221>>, <<"OAUTH2", 1222>>, <<"API_KEY", 1223>>,
      <<"BEARER_TOKEN", 1224>>, <<"REFRESH_TOKEN", 1225>>, <<"ACCESS_TOKEN", 1226>>,
      <<"GOOGLE", 1240>>, <<"FACEBOOK", 1241>>, <<"GITHUB", 1242>>, <<"MICROSOFT", 1243>>,
      <<"APPLE", 1244>>, <<"TWITTER", 1245>>, <<"LINKEDIN", 1246>>, <<"SAML", 1247>>,
      <<"LDAP", 1248>>, <<"ACTIVE_DIRECTORY", 1249>>, <<"CERTIFICATE", 1260>>,
      <<"SMART_CARD", 1261>>, <<"HARDWARE_TOKEN", 1262>>, <<"BLOCKCHAIN", 1263>>,
      <<"WEBAUTHN", 1264>>, <<"FIDO2", 1265>>>>],
    \* class AuthorizationEvent(IntEnum), lines 769-808
    [name |-> "AuthorizationEvent", members |-> <<
      <<"ACCESS_GRANTED", 1400>>, <<"ACCESS_DENIED", 1401>>, <<"ACCESS_REVOKED", 1402>>,
      <<"ACCESS_EXPIRED", 1403>>, <<"PERMISSION_CHECK", 1404>>, <<"ROLE_CHECK", 1405>>,
      <<"POLICY_EVALUATED", 1406>>, <<"ROLE_CREATED", 1420>>, <<"ROLE_ASSIGNED", 1421>>,
      <<"ROLE_REMOVED", 1422>>, <<"ROLE_UPDATED", 1423>>, <<"ROLE_DELETED", 1424>>,
      <<"ROLE_INHERITED", 1425>>, <<"ROLE_HIERARCHY_CHANGED", 1426>>,
      <<"PERMISSION_GRANTED", 1440>>, <<"PERMISSION_REVOKED", 1441>>,
      <<"PERMISSION_UPDATED", 1442>>, <<"PERMISSION_INHERITED", 1443>>,
      <<"PERMISSION_OVERRIDDEN", 1444>>, <<"PERMISSION_DELEGATED", 1445>>,
      <<"POLICY_CREATED", 1460>>, <<"POLICY_UPDATED", 1461>>, <<"POLICY_DELETED", 1462>>,
      <<"POLICY_ATTACHED", 1463>>, <<"POLICY_DETACHED", 1464>>, <<"POLICY_VIOLATION", 1465>>,
      <<"POLICY_ENFORCED", 1466>>>>],
    \* class BackupOperation(IntEnum), lines 1431-1465
    [name |-> "BackupOperation", members |-> <<
      <<"FULL_BACKUP", 4800>>, <<"INCREMENTAL_BACKUP", 4801>>, <<"DIFFERENTIAL_BACKUP", 4802>>,
      <<"SNAPSHOT_BACKUP", 4803>>, <<"CONTINUOUS_BACKUP", 4804>>, <<"BACKUP_SCHEDULED", 4820>>,
      <<"BACKUP_STARTED", 4821>>, <<"BACKUP_PROGRESS", 4822>>, <<"BACKUP_COMPLETED", 4823>>,
      <<"BACKUP_FAILED", 4824>>, <<"BACKUP_VERIFIED", 4825>>, <<"RESTORE_REQUESTED", 4840>>,
      <<"RESTORE_STARTED", 4841>>, <<"RESTORE_PROGRESS", 4842>>, <<"RESTORE_COMPLETED", 4843>>,
      <<"RESTORE_FAILED", 4844>>, <<"POINT_IN_TIME_RESTORE", 4845>>,
      <<"RETENTION_POLICY_APPLIED", 4860>>, <<"BACKUP_EXPIRED", 4861>>,
      <<"BACKUP_DELETED", 4862>>, <<"BACKUP_ARCHIVED", 4863>>, <<"BACKUP_REPLICATED", 4864>>>>],
    \* class BehavioralDomain(IntEnum), lines 1722-1827
    [name |-> "BehavioralDomain", members |-> <<
      <<"PHYSICAL_FITNESS", 5700>>, <<"NUTRITION_HABITS", 5701>>, <<"SLEEP_QUALITY", 5702>>,
      <<"ENERGY_MANAGEMENT", 5703>>, <<"BODY_AWARENESS", 5704>>,
      <<"CHRONIC_CONDITION_MANAGEMENT", 5705>>, <<"EMOTIONAL_REGULATION", 5710>>,
      <<"STRESS_RESPONSE", 5711>>, <<"ANXIETY_MANAGEMENT", 5712>>, <<"DEPRESSION_COPING", 5713>>,
      <<"TRAUMA_HEALING", 5714>>, <<"GRIEF_PROCESSING", 5715>>, <<"FOCUS_CONCENTRATION", 5720>>,
      <<"MEMORY_RETENTION", 5721>>, <<"LEARNING_STRATEGIES", 5722>>,
      <<"SKILL_ACQUISITION", 5723>>, <<"PROBLEM_SOLVING", 5724>>, <<"DECISION_MAKING", 5725>>,
      <<"HABIT_FORMATION", 5730>>, <<"HABIT_BREAKING", 5731>>, <<"ROUTINE_OPTIMIZATION", 5732>>,
      <<"PROCRASTINATION_PATTERNS", 5733>>, <<"MOTIVATION_SUSTAINING", 5734>>,
      <<"COMMUNICATION_PATTERNS", 5740>>, <<"CONFLICT_NAVIGATION", 5741>>,
      <<"INTIMACY_BUILDING", 5742>>, <<"BOUNDARY_SETTING", 5743>>, <<"SOCIAL_CONFIDENCE", 5744>>,
      <<"FAMILY_DYNAMICS", 5745>>, <<"CAREER_NAVIGATION", 5750>>,
      <<"LEADERSHIP_DEVELOPMENT", 5751>>, <<"PERFORMANCE_OPTIMIZATION", 5752>>,
      <<"PROFESSIONAL_RELATIONSHIPS", 5753>>, <<"WORK_LIFE_BALANCE", 5754>>,
      <<"ENTREPRENEURIAL_MINDSET", 5755>>, <<"SPENDING_PATTERNS", 5760>>,
      <<"SAVING_DISCIPLINE", 5761>>, <<"FINANCIAL_PLANNING", 5762>>, <<"MONEY_MINDSET", 5763>>,
      <<"INVESTMENT_BEHAVIOR", 5764>>, <<"SELF_AWARENESS", 5765>>,
      <<"CONFIDENCE_BUILDING", 5766>>, <<"IDENTITY_DEVELOPMENT", 5767>>,
      <<"PURPOSE_FINDING", 5768>>, <<"VALUE_ALIGNMENT", 5769>>, <<"CHANGE_ADAPTATION", 5770>>,
      <<"TRANSITION_NAVIGATION", 5771>>, <<"LOSS_ADJUSTMENT", 5772>>,
      <<"NEW_PHASE_PREPARATION", 5773>>, <<"MEANING_MAKING", 5774>>,
      <<"SPIRITUAL_PRACTICE", 5775>>, <<"MINDFULNESS_PRESENCE", 5776>>,
      <<"EXISTENTIAL_EXPLORATION", 5777>>, <<"DIGITAL_BOUNDARIES", 5778>>,
      <<"TECHNOLOGY_BALANCE", 5779>>, <<"REMOTE_WORK_ADAPTATION", 5780>>,
      <<"ONLINE_RELATIONSHIP_MANAGEMENT", 5781>>, <<"CRISIS_RESPONSE", 5782>>,
      <<"ADDICTION_RECOVERY", 5783>>, <<"RELAPSE_PREVENTION", 5784>>,
      <<"EMERGENCY_PREPAREDNESS", 5785>>, <<"TIME_MANAGEMENT", 5786>>,
      <<"ENVIRONMENT_OPTIMIZATION", 5787>>, <<"MINIMALISM_SIMPLIFICATION", 5788>>,
      <<"SUSTAINABILITY_PRACTICES", 5789>>, <<"TRAVEL_ADAPTATION", 5790>>,
      <<"CREATIVE_FLOW", 5791>>, <<"ARTISTIC_EXPRESSION", 5792>>,
      <<"INNOVATION_THINKING", 5793>>, <<"HOBBY_ENGAGEMENT", 5794>>,
      <<"AGING_ADAPTATION", 5795>>, <<"RETIREMENT_TRANSITION", 5796>>,
      <<"LEGACY_BUILDING", 5797>>, <<"GENERATIONAL_WISDOM", 5798>>>>],
    \* class BehavioralMetric(IntEnum), lines 1871-1922
    [name |-> "BehavioralMetric", members |-> <<
      <<"FREQUENCY_MEASURE", 5900>>, <<"INTENSITY_LEVEL", 5901>>, <<"DURATION_TRACKED", 5902>>,
      <<"CONSISTENCY_SCORE", 5903>>, <<"TREND_DIRECTION", 5904>>, <<"VARIABILITY_INDEX", 5905>>,
      <<"BASELINE_ESTABLISHED", 5906>>, <<"DEVIATION_DETECTED", 5907>>,
      <<"PATTERN_STRENGTH", 5908>>, <<"HABIT_SCORE", 5909>>, <<"IMPROVEMENT_RATE", 5920>>,
      <<"GOAL_PROXIMITY", 5921>>, <<"MILESTONE_REACHED", 5922>>, <<"SETBACK_RECORDED", 5923>>,
      <<"RECOVERY_TIME", 5924>>, <<"MOMENTUM_SCORE", 5925>>, <<"BREAKTHROUGH_MOMENT", 5926>>,
      <<"PLATEAU_DETECTED", 5927>>, <<"BEHAVIOR_INITIATED", 5940>>,
      <<"BEHAVIOR_MAINTAINED", 5941>>, <<"BEHAVIOR_STRENGTHENED", 5942>>,
      <<"BEHAVIOR_WEAKENED", 5943>>, <<"BEHAVIOR_EXTINCT", 5944>>, <<"BEHAVIOR_RELAPSED", 5945>>,
      <<"BEHAVIOR_TRANSFORMED", 5946>>, <<"BEHAVIOR_INTEGRATED", 5947>>,
      <<"INTERVENTION_APPLIED", 5960>>, <<"INTERVENTION_EFFECTIVE", 5961>>,
      <<"INTERVENTION_INEFFECTIVE", 5962>>, <<"STRATEGY_ADJUSTED", 5963>>,
      <<"SUPPORT_ACTIVATED", 5964>>, <<"RESISTANCE_ENCOUNTERED", 5965>>,
      <<"BREAKTHROUGH_ACHIEVED", 5966>>, <<"PATTERN_IDENTIFIED", 5980>>,
      <<"CORRELATION_FOUND", 5981>>, <<"PREDICTION_GENERATED", 5982>>,
      <<"INSIGHT_DISCOVERED", 5983>>, <<"RECOMMENDATION_CREATED", 5984>>,
      <<"RISK_ASSESSED", 5985>>, <<"OPPORTUNITY_IDENTIFIED", 5986>>>>],
    \* class BehavioralPrediction(IntEnum), lines 2900-2925
    [name |-> "BehavioralPrediction", members |-> <<
      <<"PATTERN_DETECTED", 15000>>, <<"BEHAVIOR_PREDICTED", 15001>>,
      <<"ANOMALY_IDENTIFIED", 15002>>, <<"TREND_FORECASTED", 15003>>,
      <<"CHURN_RISK_HIGH", 15004>>, <<"ENGAGEMENT_DECLINING", 15005>>,
      <<"INTERVENTION_RECOMMENDED", 15200>>, <<"PERSONALIZATION_APPLIED", 15201>>,
      <<"OFFER_TRIGGERED", 15202>>, <<"CONTENT_ADAPTED", 15203>>,
      <<"WORKFLOW_OPTIMIZED", 15204>>, <<"MODEL_IMPROVED", 15400>>,
      <<"ACCURACY_INCREASED", 15401>>, <<"FALSE_POSITIVE_REDUCED", 15402>>,
      <<"PREDICTION_VALIDATED", 15403>>, <<"FEEDBACK_INCORPORATED", 15404>>>>],
    \* class BusinessEvent(IntEnum), lines 1969-2006
    [name |-> "BusinessEvent", members |-> <<
      <<"TRANSACTION_INITIATED", 6100>>, <<"TRANSACTION_AUTHORIZED", 6101>>,
      <<"TRANSACTION_COMPLETED", 6102>>, <<"TRANSACTION_FAILED", 6103>>,
      <<"TRANSACTION_REVERSED", 6104>>, <<"TRANSACTION_DISPUTED", 6105>>,
      <<"ORDER_PLACED", 6120>>, <<"ORDER_CONFIRMED", 6121>>, <<"ORDER_PROCESSED", 6122>>,
      <<"ORDER_SHIPPED", 6123>>, <<"ORDER_DELIVERED", 6124>>, <<"ORDER_CANCELLED", 6125>>,
      <<"ORDER_RETURNED", 6126>>, <<"CUSTOMER_REGISTERED", 6140>>, <<"CUSTOMER_VERIFIED", 6141>>,
      <<"CUSTOMER_UPGRADED", 6142>>, <<"CUSTOMER_DOWNGRADED", 6143>>,
      <<"CUSTOMER_CHURNED", 6144>>, <<"CUSTOMER_REACTIVATED", 6145>>,
      <<"INVOICE_GENERATED", 6160>>, <<"PAYMENT_RECEIVED", 6161>>, <<"PAYMENT_FAILED", 6162>>,
      <<"REFUND_ISSUED", 6163>>, <<"CREDIT_APPLIED", 6164>>, <<"SUBSCRIPTION_RENEWED", 6165>>>>],
    \* class BusinessProcess(IntEnum), lines 1930-1963
    [name |-> "BusinessProcess", members |-> <<
      <<"ORDER_PROCESSING", 6000>>, <<"PAYMENT_PROCESSING", 6001>>,
      <<"INVENTORY_MANAGEMENT", 6002>>, <<"CUSTOMER_ONBOARDING", 6003>>,
      <<"ACCOUNT_MANAGEMENT", 6004>>, <<"BILLING_CYCLE", 6005>>, <<"TICKET_MANAGEMENT", 6020>>,
      <<"COMPLAINT_HANDLING", 6021>>, <<"REFUND_PROCESSING", 6022>>,
      <<"ESCALATION_PROCESS", 6023>>, <<"FEEDBACK_COLLECTION", 6024>>,
      <<"APPROVAL_WORKFLOW", 6040>>, <<"DOCUMENT_PROCESSING", 6041>>,
      <<"COMPLIANCE_CHECK", 6042>>, <<"AUDIT_PROCESS", 6043>>, <<"REPORTING_PROCESS", 6044>>,
      <<"DATA_ANALYSIS", 6060>>, <<"REPORT_GENERATION", 6061>>, <<"DASHBOARD_UPDATE", 6062>>,
      <<"KPI_CALCULATION", 6063>>, <<"TREND_ANALYSIS", 6064>>>>],
    \* class BusinessRule(IntEnum), lines 2095-2130
    [name |-> "BusinessRule", members |-> <<
      <<"FIELD_VALIDATION", 6600>>, <<"FORMAT_VALIDATION", 6601>>, <<"RANGE_VALIDATION", 6602>>,
      <<"DEPENDENCY_VALIDATION", 6603>>, <<"CONSISTENCY_CHECK", 6604>>,
      <<"COMPLETENESS_CHECK", 6605>>, <<"PRICE_CALCULATION", 6620>>, <<"TAX_CALCULATION", 6621>>,
      <<"DISCOUNT_CALCULATION", 6622>>, <<"FEE_CALCULATION", 6623>>,
      <<"COMMISSION_CALCULATION", 6624>>, <<"INTEREST_CALCULATION", 6625>>,
      <<"ACCESS_POLICY", 6640>>, <<"RETENTION_POLICY", 6641>>, <<"ESCALATION_POLICY", 6642>>,
      <<"APPROVAL_POLICY", 6643>>, <<"SECURITY_POLICY", 6644>>, <<"COMPLIANCE_POLICY", 6645>>,
      <<"LIMIT_CHECK", 6660>>, <<"QUOTA_CHECK", 6661>>, <<"CAPACITY_CHECK", 6662>>,
      <<"AVAILABILITY_CHECK", 6663>>, <<"COMPATIBILITY_CHECK", 6664>>>>],
    \* class CacheOperation(IntEnum), lines 1391-1425
    [name |-> "CacheOperation", members |-> <<
      <<"CACHE_GET", 4600>>, <<"CACHE_SET", 4601>>, <<"CACHE_DELETE", 4602>>,
      <<"CACHE_HIT", 4603>>, <<"CACHE_MISS", 4604>>, <<"CACHE_EXPIRED", 4605>>,
      <<"CACHE_CLEARED", 4620>>, <<"CACHE_WARMED", 4621>>, <<"CACHE_INVALIDATED", 4622>>,
      <<"CACHE_REFRESHED", 4623>>, <<"CACHE_RESIZED", 4624>>, <<"LRU_EVICTION", 4640>>,
      <<"LFU_EVICTION", 4641>>, <<"TTL_EVICTION", 4642>>, <<"WRITE_THROUGH", 4643>>,
      <<"WRITE_BACK", 4644>>, <<"WRITE_AROUND", 4645>>, <<"CACHE_REPLICATED", 4660>>,
      <<"CACHE_PARTITIONED", 4661>>, <<"CACHE_NODE_ADDED", 4662>>,
      <<"CACHE_NODE_REMOVED", 4663>>, <<"CACHE_REBALANCED", 4664>>>>],
    \* class CommunicationEvent(IntEnum), lines 359-404
    [name |-> "CommunicationEvent", members |-> <<
      <<"MESSAGE_SENT", 500>>, <<"MESSAGE_RECEIVED", 501>>, <<"MESSAGE_PROCESSED", 502>>,
      <<"MESSAGE_FAILED", 503>>, <<"MESSAGE_RETRY", 504>>, <<"MESSAGE_EXPIRED", 505>>,
      <<"MESSAGE_ACKNOWLEDGED", 506>>, <<"MESSAGE_REJECTED", 507>>, <<"REQUEST_SENT", 520>>,
      <<"REQUEST_RECEIVED", 521>>, <<"RESPONSE_SENT", 522>>, <<"RESPONSE_RECEIVED", 523>>,
      <<"REQUEST_TIMEOUT", 524>>, <<"REQUEST_CANCELLED", 525>>, <<"RESPONSE_CACHED", 526>>,
      <<"CACHE_HIT", 527>>, <<"CACHE_MISS", 528>>, <<"STREAM_STARTED", 540>>,
      <<"STREAM_DATA", 541>>, <<"STREAM_PAUSED", 542>>, <<"STREAM_RESUMED", 543>>,
      <<"STREAM_ENDED", 544>>, <<"STREAM_ERROR", 545>>, <<"BUFFER_FULL", 546>>,
      <<"BUFFER_EMPTY", 547>>, <<"CONNECTION_ESTABLISHED", 560>>, <<"CONNECTION_LOST", 561>>,
      <<"CONNECTION_RESTORED", 562>>, <<"HANDSHAKE_STARTED", 563>>,
      <<"HANDSHAKE_COMPLETED", 564>>, <<"HANDSHAKE_FAILED", 565>>, <<"PROTOCOL_ERROR", 566>>,
      <<"PROTOCOL_UPGRADED", 567>>>>],
    \* class ContainerLifecycle(IntEnum), lines 971-1007
    [name |-> "ContainerLifecycle", members |-> <<
      <<"CONTAINER_REQUESTED", 2200>>, <<"CONTAINER_PROVISIONING", 2201>>,
      <<"CONTAINER_CREATED", 2202>>, <<"CONTAINER_CONFIGURED", 2203>>,
      <<"CONTAINER_INITIALIZING", 2204>>, <<"CONTAINER_INITIALIZED", 2205>>,
      <<"CONTAINER_STARTING", 2220>>, <<"CONTAINER_STARTED", 2221>>, <<"CONTAINER_READY", 2222>>,
      <<"CONTAINER_HEALTHY", 2223>>, <<"CONTAINER_UNHEALTHY", 2224>>,
      <<"CONTAINER_DEGRADED", 2225>>, <<"CONTAINER_UPDATING", 2240>>,
      <<"CONTAINER_DRAINING", 2241>>, <<"CONTAINER_PAUSED", 2242>>,
      <<"CONTAINER_SUSPENDED", 2243>>, <<"CONTAINER_HIBERNATING", 2244>>,
      <<"CONTAINER_MAINTENANCE", 2245>>, <<"CONTAINER_STOPPING", 2260>>,
      <<"CONTAINER_STOPPED", 2261>>, <<"CONTAINER_TERMINATING", 2262>>,
      <<"CONTAINER_TERMINATED", 2263>>, <<"CONTAINER_FAILED", 2264>>,
      <<"CONTAINER_CRASHED", 2265>>>>],
    \* class ContainerManagement(IntEnum), lines 1095-1135
    [name |-> "ContainerManagement", members |-> <<
      <<"DEPLOYMENT_STARTED", 2500>>, <<"DEPLOYMENT_PROGRESS", 2501>>,
      <<"DEPLOYMENT_COMPLETED", 2502>>, <<"DEPLOYMENT_FAILED", 2503>>,
      <<"DEPLOYMENT_ROLLED_BACK", 2504>>, <<"BLUE_GREEN_SWITCH", 2505>>,
      <<"CANARY_DEPLOYED", 2506>>, <<"UPDATE_STARTED", 2520>>, <<"UPDATE_DOWNLOADING", 2521>>,
      <<"UPDATE_APPLYING", 2522>>, <<"UPDATE_COMPLETED", 2523>>, <<"UPDATE_FAILED", 2524>>,
      <<"ROLLBACK_INITIATED", 2525>>, <<"ROLLBACK_COMPLETED", 2526>>, <<"BACKUP_STARTED", 2540>>,
      <<"BACKUP_COMPLETED", 2541>>, <<"BACKUP_FAILED", 2542>>, <<"RESTORE_STARTED", 2543>>,
      <<"RESTORE_COMPLETED", 2544>>, <<"RESTORE_FAILED", 2545>>, <<"SNAPSHOT_CREATED", 2546>>,
      <<"SNAPSHOT_DELETED", 2547>>, <<"MIGRATION_STARTED", 2560>>,
      <<"MIGRATION_PROGRESS", 2561>>, <<"MIGRATION_COMPLETED", 2562>>,
      <<"MIGRATION_FAILED", 2563>>, <<"DATA_SYNC_STARTED", 2564>>, <<"DATA_SYNC_COMPLETED", 2565>>>>],
    \* class ContainerOrchestration(IntEnum), lines 1013-1050
    [name |-> "ContainerOrchestration", members |-> <<
      <<"CONTAINER_SCHEDULED", 2300>>, <<"CONTAINER_RESCHEDULED", 2301>>,
      <<"CONTAINER_ASSIGNED", 2302>>, <<"CONTAINER_EVICTED", 2303>>,
      <<"PLACEMENT_CONSTRAINT_MET", 2304>>, <<"PLACEMENT_CONSTRAINT_FAILED", 2305>>,
      <<"SCALE_UP_INITIATED", 2320>>, <<"SCALE_DOWN_INITIATED", 2321>>,
      <<"REPLICA_ADDED", 2322>>, <<"REPLICA_REMOVED", 2323>>, <<"AUTO_SCALE_TRIGGERED", 2324>>,
      <<"SCALE_LIMIT_REACHED", 2325>>, <<"LOAD_BALANCED", 2340>>, <<"BACKEND_ADDED", 2341>>,
      <<"BACKEND_REMOVED", 2342>>, <<"HEALTH_CHECK_PASSED", 2343>>,
      <<"HEALTH_CHECK_FAILED", 2344>>, <<"CIRCUIT_BREAKER_OPEN", 2345>>,
      <<"CIRCUIT_BREAKER_CLOSED", 2346>>, <<"SERVICE_REGISTERED", 2360>>,
      <<"SERVICE_DEREGISTERED", 2361>>, <<"SERVICE_DISCOVERED", 2362>>,
      <<"ENDPOINT_ADDED", 2363>>, <<"ENDPOINT_REMOVED", 2364>>, <<"DNS_UPDATED", 2365>>>>],
    \* class ContainerResource(IntEnum), lines 1056-1089
    [name |-> "ContainerResource", members |-> <<
      <<"CPU_ALLOCATED", 2400>>, <<"CPU_LIMIT_SET", 2401>>, <<"CPU_THROTTLED", 2402>>,
      <<"CPU_BURST", 2403>>, <<"CPU_QUOTA_EXCEEDED", 2404>>, <<"MEMORY_ALLOCATED", 2420>>,
      <<"MEMORY_LIMIT_SET", 2421>>, <<"MEMORY_PRESSURE", 2422>>, <<"MEMORY_OOM", 2423>>,
      <<"MEMORY_SWAP_ENABLED", 2424>>, <<"STORAGE_ALLOCATED", 2440>>,
      <<"STORAGE_MOUNTED", 2441>>, <<"STORAGE_UNMOUNTED", 2442>>, <<"STORAGE_FULL", 2443>>,
      <<"STORAGE_EXPANDED", 2444>>, <<"NETWORK_ATTACHED", 2460>>, <<"NETWORK_DETACHED", 2461>>,
      <<"BANDWIDTH_ALLOCATED", 2462>>, <<"BANDWIDTH_THROTTLED", 2463>>,
      <<"PORT_ALLOCATED", 2464>>, <<"PORT_RELEASED", 2465>>>>],
    \* class ContainerType(IntEnum), lines 902-965
    [name |-> "ContainerType", members |-> <<
      <<"WEB_SERVER", 2000>>, <<"APP_SERVER", 2001>>, <<"API_GATEWAY", 2002>>,
      <<"LOAD_BALANCER", 2003>>, <<"REVERSE_PROXY", 2004>>, <<"CDN_NODE", 2005>>,
      <<"EDGE_SERVER", 2006>>, <<"DATABASE_PRIMARY", 2020>>, <<"DATABASE_REPLICA", 2021>>,
      <<"DATABASE_CACHE", 2022>>, <<"DATABASE_SHARD", 2023>>, <<"DATABASE_PROXY", 2024>>,
      <<"MESSAGE_BROKER", 2040>>, <<"QUEUE_WORKER", 2041>>, <<"EVENT_BUS", 2042>>,
      <<"STREAM_PROCESSOR", 2043>>, <<"METRICS_COLLECTOR", 2060>>, <<"LOG_AGGREGATOR", 2061>>,
      <<"TRACE_COLLECTOR", 2062>>, <<"HEALTH_MONITOR", 2063>>, <<"ALERT_MANAGER", 2064>>,
      <<"FIREWALL", 2080>>, <<"IDS", 2081>>, <<"IPS", 2082>>, <<"WAF", 2083>>,
      <<"SECURITY_SCANNER", 2084>>, <<"FILE_STORAGE", 2100>>, <<"OBJECT_STORAGE", 2101>>,
      <<"BLOCK_STORAGE", 2102>>, <<"BACKUP_STORAGE", 2103>>, <<"COMPUTE_NODE", 2120>>,
      <<"BATCH_PROCESSOR", 2121>>, <<"JOB_SCHEDULER", 2122>>, <<"TASK_RUNNER", 2123>>,
      <<"NETWORK_ROUTER", 2140>>, <<"VPN_GATEWAY", 2141>>, <<"NAT_GATEWAY", 2142>>,
      <<"DNS_SERVER", 2143>>, <<"DHCP_SERVER", 2144>>>>],
    \* class DataOperation(IntEnum), lines 1352-1385
    [name |-> "DataOperation", members |-> <<
      <<"EXTRACT_STARTED", 4400>>, <<"TRANSFORM_STARTED", 4401>>, <<"LOAD_STARTED", 4402>>,
      <<"ETL_COMPLETED", 4403>>, <<"ETL_FAILED", 4404>>, <<"DATA_VALIDATED", 4420>>,
      <<"DATA_CLEANSED", 4421>>, <<"DATA_ENRICHED", 4422>>, <<"DATA_DEDUPLICATED", 4423>>,
      <<"DATA_STANDARDIZED", 4424>>, <<"DATA_IMPORTED", 4440>>, <<"DATA_EXPORTED", 4441>>,
      <<"DATA_MIGRATED", 4442>>, <<"DATA_SYNCED", 4443>>, <<"DATA_ARCHIVED", 4444>>,
      <<"DATA_PURGED", 4445>>, <<"AGGREGATION_STARTED", 4460>>,
      <<"CALCULATION_PERFORMED", 4461>>, <<"REPORT_GENERATED", 4462>>,
      <<"DASHBOARD_UPDATED", 4463>>, <<"METRIC_CALCULATED", 4464>>>>],
    \* class DatabaseOperation(IntEnum), lines 1268-1306
    [name |-> "DatabaseOperation", members |-> <<
      <<"DB_CONNECT", 4100>>, <<"DB_DISCONNECT", 4101>>, <<"DB_QUERY", 4102>>,
      <<"DB_INSERT", 4103>>, <<"DB_UPDATE", 4104>>, <<"DB_DELETE", 4105>>,
      <<"DB_TRANSACTION_START", 4106>>, <<"DB_TRANSACTION_COMMIT", 4107>>,
      <<"DB_TRANSACTION_ROLLBACK", 4108>>, <<"DB_BACKUP", 4120>>, <<"DB_RESTORE", 4121>>,
      <<"DB_REPLICATE", 4122>>, <<"DB_MIGRATE", 4123>>, <<"DB_OPTIMIZE", 4124>>,
      <<"DB_VACUUM", 4125>>, <<"DB_ANALYZE", 4126>>, <<"INDEX_CREATE", 4140>>,
      <<"INDEX_DROP", 4141>>, <<"INDEX_REBUILD", 4142>>, <<"INDEX_OPTIMIZE", 4143>>,
      <<"INDEX_SCAN", 4144>>, <<"SCHEMA_CREATE", 4160>>, <<"SCHEMA_ALTER", 4161>>,
      <<"SCHEMA_DROP", 4162>>, <<"SCHEMA_MIGRATE", 4163>>, <<"SCHEMA_VALIDATE", 4164>>>>],
    \* class DatabaseType(IntEnum), lines 1227-1262
    [name |-> "DatabaseType", members |-> <<
      <<"POSTGRESQL", 4000>>, <<"MYSQL", 4001>>, <<"MARIADB", 4002>>, <<"ORACLE", 4003>>,
      <<"SQL_SERVER", 4004>>, <<"SQLITE", 4005>>, <<"MONGODB", 4020>>, <<"CASSANDRA", 4021>>,
      <<"DYNAMODB", 4022>>, <<"COUCHDB", 4023>>, <<"REDIS", 4024>>, <<"ELASTICSEARCH", 4025>>,
      <<"TIMESERIES_DB", 4040>>, <<"GRAPH_DB", 4041>>, <<"VECTOR_DB", 4042>>,
      <<"DOCUMENT_DB", 4043>>, <<"KEY_VALUE_DB", 4044>>, <<"OBJECT_DB", 4045>>,
      <<"SNOWFLAKE", 4060>>, <<"REDSHIFT", 4061>>, <<"BIGQUERY", 4062>>, <<"SYNAPSE", 4063>>,
      <<"CLICKHOUSE", 4064>>>>],
    \* class DecisionPoint(IntEnum), lines 2054-2089
    [name |-> "DecisionPoint", members |-> <<
      <<"APPROVAL_PENDING", 6400>>, <<"APPROVAL_GRANTED", 6401>>, <<"APPROVAL_DENIED", 6402>>,
      <<"APPROVAL_ESCALATED", 6403>>, <<"APPROVAL_EXPIRED", 6404>>,
      <<"APPROVAL_DELEGATED", 6405>>, <<"CREDIT_CHECK", 6420>>, <<"RISK_ASSESSMENT", 6421>>,
      <<"ELIGIBILITY_CHECK", 6422>>, <<"PRICING_DECISION", 6423>>, <<"ROUTING_DECISION", 6424>>,
      <<"PRIORITY_DECISION", 6425>>, <<"RULE_EVALUATED", 6440>>, <<"THRESHOLD_CHECKED", 6441>>,
      <<"POLICY_APPLIED", 6442>>, <<"ALGORITHM_EXECUTED", 6443>>, <<"ML_PREDICTION", 6444>>,
      <<"SCORE_CALCULATED", 6445>>, <<"MANUAL_REVIEW", 6460>>, <<"EXPERT_OPINION", 6461>>,
      <<"OVERRIDE_APPLIED", 6462>>, <<"EXCEPTION_GRANTED", 6463>>, <<"WAIVER_APPROVED", 6464>>>>],
    \* class DeploymentType(IntEnum), lines 1179-1217
    [name |-> "DeploymentType", members |-> <<
      <<"ROLLING_UPDATE", 3500>>, <<"BLUE_GREEN", 3501>>, <<"CANARY", 3502>>,
      <<"FEATURE_FLAG", 3503>>, <<"A_B_TESTING", 3504>>, <<"SHADOW", 3505>>,
      <<"DEVELOPMENT", 3520>>, <<"TESTING", 3521>>, <<"STAGING", 3522>>, <<"PRODUCTION", 3523>>,
      <<"DISASTER_RECOVERY", 3524>>, <<"DEMO", 3525>>, <<"SANDBOX", 3526>>,
      <<"ON_PREMISE", 3540>>, <<"CLOUD", 3541>>, <<"HYBRID", 3542>>, <<"EDGE", 3543>>,
      <<"MOBILE", 3544>>, <<"IOT", 3545>>, <<"AWS", 3560>>, <<"AZURE", 3561>>, <<"GCP", 3562>>,
      <<"ALIBABA", 3563>>, <<"IBM_CLOUD", 3564>>, <<"ORACLE_CLOUD", 3565>>,
      <<"DIGITAL_OCEAN", 3566>>>>],
    \* class DomainSpecific(IntEnum), lines 2136-2172
    [name |-> "DomainSpecific", members |-> <<
      <<"CART_UPDATED", 6800>>, <<"CHECKOUT_STARTED", 6801>>, <<"PAYMENT_PROCESSED", 6802>>,
      <<"INVENTORY_UPDATED", 6803>>, <<"SHIPPING_CALCULATED", 6804>>,
      <<"TRACKING_UPDATED", 6805>>, <<"APPOINTMENT_SCHEDULED", 6820>>,
      <<"PRESCRIPTION_CREATED", 6821>>, <<"LAB_RESULT_RECEIVED", 6822>>,
      <<"INSURANCE_VERIFIED", 6823>>, <<"PATIENT_ADMITTED", 6824>>,
      <<"PATIENT_DISCHARGED", 6825>>, <<"ACCOUNT_OPENED", 6840>>, <<"TRANSACTION_POSTED", 6841>>,
      <<"STATEMENT_GENERATED", 6842>>, <<"FRAUD_DETECTED", 6843>>, <<"LOAN_APPROVED", 6844>>,
      <<"INVESTMENT_EXECUTED", 6845>>, <<"PRODUCTION_STARTED", 6860>>, <<"QUALITY_CHECK", 6861>>,
      <<"DEFECT_DETECTED", 6862>>, <<"BATCH_COMPLETED", 6863>>,
      <<"MAINTENANCE_SCHEDULED", 6864>>, <<"EQUIPMENT_FAILURE", 6865>>>>],
    \* class ErrorEvent(IntEnum), lines 304-349
    [name |-> "ErrorEvent", members |-> <<
      <<"ERROR_OCCURRED", 400>>, <<"EXCEPTION_THROWN", 401>>, <<"VALIDATION_ERROR", 402>>,
      <<"BUSINESS_RULE_VIOLATION", 403>>, <<"CONSTRAINT_VIOLATION", 404>>,
      <<"DATA_INTEGRITY_ERROR", 405>>, <<"CONCURRENCY_ERROR", 406>>, <<"TIMEOUT_ERROR", 407>>,
      <<"SYSTEM_ERROR", 420>>, <<"SERVICE_UNAVAILABLE", 421>>, <<"DEPENDENCY_ERROR", 422>>,
      <<"NETWORK_ERROR", 423>>, <<"DATABASE_ERROR", 424>>, <<"FILE_SYSTEM_ERROR", 425>>,
      <<"MEMORY_ERROR", 426>>, <<"HARDWARE_ERROR", 427>>, <<"APPLICATION_ERROR", 440>>,
      <<"LOGIC_ERROR", 441>>, <<"STATE_ERROR", 442>>, <<"CONFIGURATION_ERROR", 443>>,
      <<"PERMISSION_ERROR", 444>>, <<"AUTHENTICATION_ERROR", 445>>, <<"RATE_LIMIT_ERROR", 446>>,
      <<"QUOTA_EXCEEDED_ERROR", 447>>, <<"ERROR_HANDLED", 460>>, <<"ERROR_LOGGED", 461>>,
      <<"ERROR_REPORTED", 462>>, <<"RECOVERY_ATTEMPTED", 463>>, <<"RECOVERY_SUCCEEDED", 464>>,
      <<"RECOVERY_FAILED", 465>>, <<"FALLBACK_ACTIVATED", 466>>, <<"CIRCUIT_BREAKER_OPEN", 467>>,
      <<"CIRCUIT_BREAKER_CLOSED", 468>>>>],
    \* class FrontendEvent(IntEnum), lines 2676-2714
    [name |-> "FrontendEvent", members |-> <<
      <<"PAGE_LOAD", 9000>>, <<"PAGE_VIEW", 9001>>, <<"PAGE_EXIT", 9002>>,
      <<"PAGE_ERROR", 9003>>, <<"PAGE_REFRESH", 9004>>, <<"ROUTE_CHANGE", 9005>>,
      <<"CLICK", 9020>>, <<"DOUBLE_CLICK", 9021>>, <<"RIGHT_CLICK", 9022>>, <<"HOVER", 9023>>,
      <<"FOCUS", 9024>>, <<"BLUR", 9025>>, <<"SCROLL", 9026>>, <<"SWIPE", 9027>>,
      <<"FORM_SUBMIT", 9040>>, <<"FORM_RESET", 9041>>, <<"FIELD_CHANGE", 9042>>,
      <<"FIELD_VALIDATE", 9043>>, <<"FIELD_ERROR", 9044>>, <<"FILE_UPLOAD", 9045>>,
      <<"MODAL_OPEN", 9060>>, <<"MODAL_CLOSE", 9061>>, <<"DROPDOWN_OPEN", 9062>>,
      <<"TAB_SWITCH", 9063>>, <<"ACCORDION_TOGGLE", 9064>>, <<"NOTIFICATION_SHOW", 9065>>>>],
    \* class HealthStatus(IntEnum), lines 2182-2216
    [name |-> "HealthStatus", members |-> <<
      <<"HEALTHY", 7000>>, <<"DEGRADED", 7001>>, <<"UNHEALTHY", 7002>>, <<"CRITICAL", 7003>>,
      <<"UNKNOWN", 7004>>, <<"RECOVERING", 7005>>, <<"SERVICE_UP", 7020>>,
      <<"SERVICE_DOWN", 7021>>, <<"SERVICE_DEGRADED", 7022>>, <<"SERVICE_MAINTENANCE", 7023>>,
      <<"PARTIAL_OUTAGE", 7024>>, <<"FULL_OUTAGE", 7025>>, <<"COMPONENT_HEALTHY", 7040>>,
      <<"COMPONENT_WARNING", 7041>>, <<"COMPONENT_ERROR", 7042>>, <<"COMPONENT_FAILING", 7043>>,
      <<"DEPENDENCY_UNHEALTHY", 7044>>, <<"SYSTEM_OPTIMAL", 7060>>, <<"SYSTEM_STRESSED", 7061>>,
      <<"SYSTEM_OVERLOADED", 7062>>, <<"SYSTEM_FAILING", 7063>>, <<"RESOURCE_EXHAUSTED", 7064>>>>],
    \* class IndustrySpecific(IntEnum), lines 2851-2896
    [name |-> "IndustrySpecific", members |-> <<
      <<"PATIENT_ADMITTED", 10000>>, <<"PATIENT_DISCHARGED", 10001>>,
      <<"MEDICATION_PRESCRIBED", 10002>>, <<"LAB_TEST_ORDERED", 10003>>,
      <<"DIAGNOSIS_RECORDED", 10004>>, <<"INSURANCE_CLAIMED", 10005>>,
      <<"TRADE_EXECUTED", 11000>>, <<"PORTFOLIO_REBALANCED", 11001>>,
      <<"RISK_CALCULATED", 11002>>, <<"COMPLIANCE_CHECKED", 11003>>, <<"FRAUD_DETECTED", 11004>>,
      <<"KYC_COMPLETED", 11005>>, <<"PRODUCT_VIEWED", 12000>>, <<"CART_ABANDONED", 12001>>,
      <<"WISHLIST_UPDATED", 12002>>, <<"REVIEW_SUBMITTED", 12003>>,
      <<"RECOMMENDATION_SHOWN", 12004>>, <<"PROMOTION_APPLIED", 12005>>,
      <<"STUDENT_ENROLLED", 13000>>, <<"ASSIGNMENT_SUBMITTED", 13001>>,
      <<"GRADE_POSTED", 13002>>, <<"ATTENDANCE_MARKED", 13003>>, <<"COURSE_COMPLETED", 13004>>,
      <<"DEGREE_AWARDED", 13005>>, <<"PERMIT_ISSUED", 14000>>, <<"LICENSE_RENEWED", 14001>>,
      <<"TAX_FILED", 14002>>, <<"BENEFIT_CLAIMED", 14003>>, <<"CITATION_ISSUED", 14004>>,
      <<"PUBLIC_RECORD_UPDATED", 14005>>>>],
    \* class InfrastructureComponent(IntEnum), lines 1141-1173
    [name |-> "InfrastructureComponent", members |-> <<
      <<"PHYSICAL_SERVER", 3000>>, <<"VIRTUAL_MACHINE", 3001>>, <<"CONTAINER_HOST", 3002>>,
      <<"KUBERNETES_NODE", 3003>>, <<"COMPUTE_CLUSTER", 3004>>, <<"NETWORK_SWITCH", 3020>>,
      <<"NETWORK_ROUTER", 3021>>, <<"FIREWALL_DEVICE", 3022>>, <<"LOAD_BALANCER_DEVICE", 3023>>,
      <<"VPN_CONCENTRATOR", 3024>>, <<"SAN", 3040>>, <<"NAS", 3041>>, <<"STORAGE_ARRAY", 3042>>,
      <<"BACKUP_DEVICE", 3043>>, <<"TAPE_LIBRARY", 3044>>, <<"KUBERNETES_MASTER", 3060>>,
      <<"ETCD_CLUSTER", 3061>>, <<"CONTAINER_REGISTRY", 3062>>, <<"ARTIFACT_REPOSITORY", 3063>>,
      <<"CI_CD_SERVER", 3064>>>>],
    \* class IntegrationEvent(IntEnum), lines 468-512
    [name |-> "IntegrationEvent", members |-> <<
      <<"API_CALL_STARTED", 700>>, <<"API_CALL_COMPLETED", 701>>, <<"API_CALL_FAILED", 702>>,
      <<"API_RATE_LIMITED", 703>>, <<"API_AUTHENTICATED", 704>>, <<"API_UNAUTHORIZED", 705>>,
      <<"WEBHOOK_RECEIVED", 706>>, <<"WEBHOOK_PROCESSED", 707>>, <<"SYNC_STARTED", 720>>,
      <<"SYNC_PROGRESS", 721>>, <<"SYNC_COMPLETED", 722>>, <<"SYNC_FAILED", 723>>,
      <<"DATA_IMPORTED", 724>>, <<"DATA_EXPORTED", 725>>, <<"BATCH_PROCESSED", 726>>,
      <<"RECORD_SYNCED", 727>>, <<"INTEGRATION_CONNECTED", 740>>,
      <<"INTEGRATION_DISCONNECTED", 741>>, <<"INTEGRATION_HEALTHY", 742>>,
      <<"INTEGRATION_DEGRADED", 743>>, <<"INTEGRATION_FAILED", 744>>,
      <<"CREDENTIALS_UPDATED", 745>>, <<"TOKEN_REFRESHED", 746>>, <<"CERTIFICATE_RENEWED", 747>>,
      <<"DATA_TRANSFORMED", 760>>, <<"SCHEMA_MAPPED", 761>>, <<"FORMAT_CONVERTED", 762>>,
      <<"VALIDATION_PASSED", 763>>, <<"VALIDATION_FAILED", 764>>, <<"ENRICHMENT_APPLIED", 765>>,
      <<"FILTER_APPLIED", 766>>, <<"AGGREGATION_COMPLETED", 767>>>>],
    \* class IoTEvent(IntEnum), lines 2763-2799
    [name |-> "IoTEvent", members |-> <<
      <<"DEVICE_REGISTERED", 9400>>, <<"DEVICE_CONNECTED", 9401>>,
      <<"DEVICE_DISCONNECTED", 9402>>, <<"DEVICE_UPDATED", 9403>>, <<"DEVICE_REMOVED", 9404>>,
      <<"FIRMWARE_UPDATED", 9405>>, <<"SENSOR_READING", 9420>>, <<"TEMPERATURE_READING", 9421>>,
      <<"HUMIDITY_READING", 9422>>, <<"PRESSURE_READING", 9423>>, <<"MOTION_DETECTED", 9424>>,
      <<"LOCATION_UPDATED", 9425>>, <<"DEVICE_ONLINE", 9440>>, <<"DEVICE_OFFLINE", 9441>>,
      <<"BATTERY_STATUS", 9442>>, <<"SIGNAL_STRENGTH", 9443>>, <<"DEVICE_ERROR", 9444>>,
      <<"MAINTENANCE_REQUIRED", 9445>>, <<"COMMAND_SENT", 9460>>, <<"COMMAND_RECEIVED", 9461>>,
      <<"COMMAND_EXECUTED", 9462>>, <<"COMMAND_FAILED", 9463>>, <<"CONFIG_UPDATED", 9464>>,
      <<"REBOOT_INITIATED", 9465>>>>],
    \* class LearningEvent(IntEnum), lines 1681-1716
    [name |-> "LearningEvent", members |-> <<
      <<"SUPERVISED_LEARNING", 5600>>, <<"UNSUPERVISED_LEARNING", 5601>>,
      <<"REINFORCEMENT_LEARNING", 5602>>, <<"TRANSFER_LEARNING", 5603>>,
      <<"META_LEARNING", 5604>>, <<"CONTINUAL_LEARNING", 5605>>, <<"LEARNING_STARTED", 5620>>,
      <<"LEARNING_PROGRESS", 5621>>, <<"LEARNING_COMPLETED", 5622>>,
      <<"KNOWLEDGE_GAINED", 5623>>, <<"SKILL_IMPROVED", 5624>>, <<"CONCEPT_MASTERED", 5625>>,
      <<"ADAPTATION_TRIGGERED", 5640>>, <<"BEHAVIOR_ADAPTED", 5641>>,
      <<"STRATEGY_ADJUSTED", 5642>>, <<"PREFERENCE_LEARNED", 5643>>, <<"PATTERN_ADAPTED", 5644>>,
      <<"CONTEXT_ADAPTED", 5645>>, <<"FEEDBACK_RECEIVED", 5660>>, <<"REWARD_CALCULATED", 5661>>,
      <<"PENALTY_APPLIED", 5662>>, <<"PERFORMANCE_EVALUATED", 5663>>,
      <<"IMPROVEMENT_MEASURED", 5664>>>>],
    \* class LoggingEvent(IntEnum), lines 2385-2420
    [name |-> "LoggingEvent", members |-> <<
      <<"LOG_WRITTEN", 7600>>, <<"LOG_ROTATED", 7601>>, <<"LOG_ARCHIVED", 7602>>,
      <<"LOG_DELETED", 7603>>, <<"LOG_SHIPPED", 7604>>, <<"LOG_INDEXED", 7605>>,
      <<"LOG_TRACE", 7620>>, <<"LOG_DEBUG", 7621>>, <<"LOG_INFO", 7622>>, <<"LOG_WARN", 7623>>,
      <<"LOG_ERROR", 7624>>, <<"LOG_FATAL", 7625>>, <<"AUDIT_STARTED", 7640>>,
      <<"AUDIT_COMPLETED", 7641>>, <<"AUDIT_FINDING", 7642>>, <<"AUDIT_VIOLATION", 7643>>,
      <<"AUDIT_CLEARED", 7644>>, <<"AUDIT_REPORT", 7645>>, <<"LOG_PARSED", 7660>>,
      <<"LOG_FILTERED", 7661>>, <<"LOG_AGGREGATED", 7662>>, <<"LOG_CORRELATED", 7663>>,
      <<"PATTERN_EXTRACTED", 7664>>>>],
    \* class MessageQueueEvent(IntEnum), lines 2513-2548
    [name |-> "MessageQueueEvent", members |-> <<
      <<"MESSAGE_PUBLISHED", 8200>>, <<"MESSAGE_CONSUMED", 8201>>,
      <<"MESSAGE_ACKNOWLEDGED", 8202>>, <<"MESSAGE_REJECTED", 8203>>,
      <<"MESSAGE_REQUESTED", 8204>>, <<"MESSAGE_EXPIRED", 8205>>, <<"QUEUE_CREATED", 8220>>,
      <<"QUEUE_DELETED", 8221>>, <<"QUEUE_PURGED", 8222>>, <<"QUEUE_BOUND", 8223>>,
      <<"QUEUE_UNBOUND", 8224>>, <<"DLQ_MESSAGE", 8225>>, <<"TOPIC_CREATED", 8240>>,
      <<"TOPIC_DELETED", 8241>>, <<"SUBSCRIPTION_CREATED", 8242>>,
      <<"SUBSCRIPTION_DELETED", 8243>>, <<"EXCHANGE_DECLARED", 8244>>,
      <<"ROUTING_KEY_SET", 8245>>, <<"CONSUMER_STARTED", 8260>>, <<"CONSUMER_STOPPED", 8261>>,
      <<"CONSUMER_ERROR", 8262>>, <<"CONSUMER_REBALANCE", 8263>>, <<"CONSUMER_LAG", 8264>>>>],
    \* class MetricType(IntEnum), lines 2263-2298
    [name |-> "MetricType", members |-> <<
      <<"RESPONSE_TIME", 7200>>, <<"THROUGHPUT", 7201>>, <<"LATENCY", 7202>>,
      <<"ERROR_RATE", 7203>>, <<"SUCCESS_RATE", 7204>>, <<"AVAILABILITY", 7205>>,
      <<"CPU_USAGE", 7220>>, <<"MEMORY_USAGE", 7221>>, <<"DISK_USAGE", 7222>>,
      <<"NETWORK_USAGE", 7223>>, <<"BANDWIDTH_USAGE", 7224>>, <<"CONNECTION_COUNT", 7225>>,
      <<"TRANSACTION_COUNT", 7240>>, <<"REVENUE", 7241>>, <<"CONVERSION_RATE", 7242>>,
      <<"USER_COUNT", 7243>>, <<"SESSION_DURATION", 7244>>, <<"BOUNCE_RATE", 7245>>,
      <<"CUSTOM_COUNTER", 7260>>, <<"CUSTOM_GAUGE", 7261>>, <<"CUSTOM_HISTOGRAM", 7262>>,
      <<"CUSTOM_SUMMARY", 7263>>, <<"CUSTOM_TIMER", 7264>>>>],
    \* class MobileAppEvent(IntEnum), lines 2720-2757
    [name |-> "MobileAppEvent", members |-> <<
      <<"APP_INSTALLED", 9200>>, <<"APP_LAUNCHED", 9201>>, <<"APP_FOREGROUND", 9202>>,
      <<"APP_BACKGROUND", 9203>>, <<"APP_TERMINATED", 9204>>, <<"APP_UPDATED", 9205>>,
      <<"APP_CRASHED", 9206>>, <<"DEVICE_ROTATED", 9220>>, <<"NETWORK_CHANGED", 9221>>,
      <<"BATTERY_LOW", 9222>>, <<"MEMORY_WARNING", 9223>>, <<"PERMISSION_GRANTED", 9224>>,
      <<"PERMISSION_DENIED", 9225>>, <<"PUSH_RECEIVED", 9240>>, <<"PUSH_OPENED", 9241>>,
      <<"PUSH_DISMISSED", 9242>>, <<"PUSH_ACTION", 9243>>, <<"TOKEN_REGISTERED", 9244>>,
      <<"TOKEN_REFRESHED", 9245>>, <<"SCREEN_VIEW", 9260>>, <<"BUTTON_TAP", 9261>>,
      <<"GESTURE_DETECTED", 9262>>, <<"DEEPLINK_OPENED", 9263>>, <<"SHARE_INITIATED", 9264>>,
      <<"PURCHASE_INITIATED", 9265>>>>],
    \* class MonitoringEvent(IntEnum), lines 2222-2257
    [name |-> "MonitoringEvent", members |-> <<
      <<"MONITOR_STARTED", 7100>>, <<"MONITOR_STOPPED", 7101>>, <<"PROBE_EXECUTED", 7102>>,
      <<"CHECK_PERFORMED", 7103>>, <<"METRIC_COLLECTED", 7104>>, <<"SAMPLE_TAKEN", 7105>>,
      <<"ANOMALY_DETECTED", 7120>>, <<"PATTERN_DETECTED", 7121>>, <<"TREND_DETECTED", 7122>>,
      <<"SPIKE_DETECTED", 7123>>, <<"DROP_DETECTED", 7124>>, <<"BASELINE_DEVIATION", 7125>>,
      <<"THRESHOLD_SET", 7140>>, <<"THRESHOLD_ADJUSTED", 7141>>, <<"THRESHOLD_EXCEEDED", 7142>>,
      <<"THRESHOLD_WARNING", 7143>>, <<"THRESHOLD_CRITICAL", 7144>>,
      <<"THRESHOLD_CLEARED", 7145>>, <<"MONITOR_CONFIGURED", 7160>>, <<"MONITOR_UPDATED", 7161>>,
      <<"MONITOR_DISABLED", 7162>>, <<"MONITOR_ENABLED", 7163>>, <<"SCHEDULE_CHANGED", 7164>>>>],
    \* class NeuralNetworkEvent(IntEnum), lines 1831-1865
    [name |-> "NeuralNetworkEvent", members |-> <<
      <<"FORWARD_PASS", 5800>>, <<"BACKWARD_PASS", 5801>>, <<"WEIGHT_UPDATE", 5802>>,
      <<"BIAS_UPDATE", 5803>>, <<"ACTIVATION_COMPUTED", 5804>>, <<"DROPOUT_APPLIED", 5805>>,
      <<"LAYER_ADDED", 5820>>, <<"LAYER_REMOVED", 5821>>, <<"LAYER_FROZEN", 5822>>,
      <<"LAYER_UNFROZEN", 5823>>, <<"ATTENTION_COMPUTED", 5824>>, <<"POOLING_APPLIED", 5825>>,
      <<"GRADIENT_VANISHING", 5840>>, <<"GRADIENT_EXPLODING", 5841>>, <<"DEAD_NEURONS", 5842>>,
      <<"SATURATION_DETECTED", 5843>>, <<"SPARSITY_INCREASED", 5844>>,
      <<"PRUNING_APPLIED", 5860>>, <<"QUANTIZATION_APPLIED", 5861>>,
      <<"DISTILLATION_PERFORMED", 5862>>, <<"ARCHITECTURE_SEARCH", 5863>>,
      <<"HYPERPARAMETER_TUNED", 5864>>>>],
    \* class NotificationType(IntEnum), lines 2344-2379
    [name |-> "NotificationType", members |-> <<
      <<"EMAIL_NOTIFICATION", 7500>>, <<"SMS_NOTIFICATION", 7501>>,
      <<"PUSH_NOTIFICATION", 7502>>, <<"WEBHOOK_NOTIFICATION", 7503>>,
      <<"SLACK_NOTIFICATION", 7504>>, <<"TEAMS_NOTIFICATION", 7505>>,
      <<"PAGERDUTY_NOTIFICATION", 7506>>, <<"NOTIFICATION_QUEUED", 7520>>,
      <<"NOTIFICATION_SENT", 7521>>, <<"NOTIFICATION_DELIVERED", 7522>>,
      <<"NOTIFICATION_FAILED", 7523>>, <<"NOTIFICATION_BOUNCED", 7524>>,
      <<"NOTIFICATION_READ", 7525>>, <<"SYSTEM_NOTIFICATION", 7540>>,
      <<"USER_NOTIFICATION", 7541>>, <<"ADMIN_NOTIFICATION", 7542>>,
      <<"BROADCAST_NOTIFICATION", 7543>>, <<"SCHEDULED_NOTIFICATION", 7544>>,
      <<"SUBSCRIPTION_CREATED", 7560>>, <<"SUBSCRIPTION_UPDATED", 7561>>,
      <<"SUBSCRIPTION_DELETED", 7562>>, <<"PREFERENCE_UPDATED", 7563>>, <<"DO_NOT_DISTURB", 7564>>>>],
    \* class PerformanceEvent(IntEnum), lines 2426-2461
    [name |-> "PerformanceEvent", members |-> <<
      <<"PERFORMANCE_BASELINE", 7800>>, <<"PERFORMANCE_DEGRADED", 7801>>,
      <<"PERFORMANCE_IMPROVED", 7802>>, <<"PERFORMANCE_OPTIMAL", 7803>>, <<"SLA_MET", 7804>>,
      <<"SLA_BREACH", 7805>>, <<"OPTIMIZATION_STARTED", 7820>>, <<"OPTIMIZATION_APPLIED", 7821>>,
      <<"CACHE_OPTIMIZED", 7822>>, <<"QUERY_OPTIMIZED", 7823>>, <<"INDEX_OPTIMIZED", 7824>>,
      <<"CODE_OPTIMIZED", 7825>>, <<"BOTTLENECK_DETECTED", 7840>>, <<"CPU_BOTTLENECK", 7841>>,
      <<"MEMORY_BOTTLENECK", 7842>>, <<"IO_BOTTLENECK", 7843>>, <<"NETWORK_BOTTLENECK", 7844>>,
      <<"DATABASE_BOTTLENECK", 7845>>, <<"LOAD_TEST_STARTED", 7860>>,
      <<"STRESS_TEST_STARTED", 7861>>, <<"BENCHMARK_COMPLETED", 7862>>,
      <<"PERFORMANCE_REGRESSION", 7863>>, <<"PERFORMANCE_PASSED", 7864>>>>],
    \* class Permission(IntEnum), lines 626-670
    [name |-> "Permission", members |-> <<
      <<"CREATE", 1100>>, <<"READ", 1101>>, <<"UPDATE", 1102>>, <<"DELETE", 1103>>,
      <<"LIST", 1104>>, <<"SEARCH", 1105>>, <<"FILTER", 1106>>, <<"EXPORT", 1107>>,
      <<"IMPORT", 1108>>, <<"EXECUTE", 1120>>, <<"APPROVE", 1121>>, <<"REJECT", 1122>>,
      <<"PUBLISH", 1123>>, <<"UNPUBLISH", 1124>>, <<"ARCHIVE", 1125>>, <<"RESTORE", 1126>>,
      <<"SHARE", 1127>>, <<"TRANSFER", 1128>>, <<"ADMIN_ACCESS", 1140>>,
      <<"CONFIG_MANAGE", 1141>>, <<"USER_MANAGE", 1142>>, <<"ROLE_MANAGE", 1143>>,
      <<"AUDIT_VIEW", 1144>>, <<"SYSTEM_MONITOR", 1145>>, <<"BACKUP_MANAGE", 1146>>,
      <<"API_MANAGE", 1147>>, <<"RESOURCE_ALLOCATE", 1160>>, <<"RESOURCE_DEALLOCATE", 1161>>,
      <<"QUOTA_MANAGE", 1162>>, <<"LIMIT_OVERRIDE", 1163>>, <<"PRIORITY_ACCESS", 1164>>,
      <<"EXCLUSIVE_ACCESS", 1165>>>>],
    \* class PlatformSpecific(IntEnum), lines 2805-2841
    [name |-> "PlatformSpecific", members |-> <<
      <<"POST_CREATED", 9600>>, <<"POST_LIKED", 9601>>, <<"POST_SHARED", 9602>>,
      <<"COMMENT_ADDED", 9603>>, <<"FOLLOW_USER", 9604>>, <<"UNFOLLOW_USER", 9605>>,
      <<"COURSE_ENROLLED", 9620>>, <<"LESSON_STARTED", 9621>>, <<"LESSON_COMPLETED", 9622>>,
      <<"QUIZ_SUBMITTED", 9623>>, <<"CERTIFICATE_EARNED", 9624>>, <<"PROGRESS_UPDATED", 9625>>,
      <<"GAME_STARTED", 9640>>, <<"LEVEL_COMPLETED", 9641>>, <<"ACHIEVEMENT_UNLOCKED", 9642>>,
      <<"SCORE_UPDATED", 9643>>, <<"PLAYER_JOINED", 9644>>, <<"PLAYER_LEFT", 9645>>,
      <<"STREAM_STARTED", 9660>>, <<"STREAM_PAUSED", 9661>>, <<"STREAM_RESUMED", 9662>>,
      <<"STREAM_ENDED", 9663>>, <<"QUALITY_CHANGED", 9664>>, <<"BUFFER_EVENT", 9665>>>>],
    \* class ProtocolEvent(IntEnum), lines 2632-2666
    [name |-> "ProtocolEvent", members |-> <<
      <<"HTTP_GET", 8800>>, <<"HTTP_POST", 8801>>, <<"HTTP_PUT", 8802>>, <<"HTTP_DELETE", 8803>>,
      <<"HTTP_PATCH", 8804>>, <<"HTTP_OPTIONS", 8805>>, <<"WS_CONNECTED", 8820>>,
      <<"WS_MESSAGE", 8821>>, <<"WS_DISCONNECTED", 8822>>, <<"WS_ERROR", 8823>>,
      <<"WS_PING", 8824>>, <<"WS_PONG", 8825>>, <<"GRPC_UNARY", 8840>>,
      <<"GRPC_STREAM_CLIENT", 8841>>, <<"GRPC_STREAM_SERVER", 8842>>,
      <<"GRPC_STREAM_BIDI", 8843>>, <<"GRPC_ERROR", 8844>>, <<"GQL_QUERY", 8860>>,
      <<"GQL_MUTATION", 8861>>, <<"GQL_SUBSCRIPTION", 8862>>, <<"GQL_ERROR", 8863>>,
      <<"GQL_VALIDATION", 8864>>>>],
    \* class SecurityEvent(IntEnum), lines 848-892
    [name |-> "SecurityEvent", members |-> <<
      <<"THREAT_DETECTED", 1800>>, <<"ATTACK_DETECTED", 1801>>, <<"INTRUSION_DETECTED", 1802>>,
      <<"MALWARE_DETECTED", 1803>>, <<"PHISHING_DETECTED", 1804>>,
      <<"SQL_INJECTION_DETECTED", 1805>>, <<"XSS_DETECTED", 1806>>, <<"CSRF_DETECTED", 1807>>,
      <<"THREAT_BLOCKED", 1820>>, <<"IP_BLACKLISTED", 1821>>, <<"IP_WHITELISTED", 1822>>,
      <<"FIREWALL_RULE_ADDED", 1823>>, <<"FIREWALL_RULE_REMOVED", 1824>>,
      <<"SECURITY_ALERT", 1825>>, <<"INCIDENT_CREATED", 1826>>, <<"INCIDENT_RESOLVED", 1827>>,
      <<"DATA_ENCRYPTED", 1840>>, <<"DATA_DECRYPTED", 1841>>, <<"KEY_GENERATED", 1842>>,
      <<"KEY_ROTATED", 1843>>, <<"KEY_EXPIRED", 1844>>, <<"KEY_REVOKED", 1845>>,
      <<"CERTIFICATE_ISSUED", 1846>>, <<"CERTIFICATE_EXPIRED", 1847>>,
      <<"CERTIFICATE_RENEWED", 1848>>, <<"COMPLIANCE_CHECK_PASSED", 1860>>,
      <<"COMPLIANCE_CHECK_FAILED", 1861>>, <<"AUDIT_TRAIL_CREATED", 1862>>,
      <<"DATA_RETENTION_APPLIED", 1863>>, <<"DATA_PURGED", 1864>>, <<"GDPR_REQUEST", 1865>>,
      <<"PRIVACY_VIOLATION", 1866>>>>],
    \* class SessionEvent(IntEnum), lines 814-842
    [name |-> "SessionEvent", members |-> <<
      <<"SESSION_CREATED", 1600>>, <<"SESSION_VALIDATED", 1601>>,
      <<"SESSION_INVALIDATED", 1602>>, <<"SESSION_EXPIRED", 1603>>, <<"SESSION_EXTENDED", 1604>>,
      <<"SESSION_TERMINATED", 1605>>, <<"SESSION_HIJACKED", 1606>>, <<"SESSION_ACTIVE", 1620>>,
      <<"SESSION_IDLE", 1621>>, <<"SESSION_LOCKED", 1622>>, <<"SESSION_UNLOCKED", 1623>>,
      <<"SESSION_MIGRATED", 1624>>, <<"SESSION_REPLICATED", 1625>>,
      <<"SESSION_DATA_STORED", 1640>>, <<"SESSION_DATA_RETRIEVED", 1641>>,
      <<"SESSION_DATA_UPDATED", 1642>>, <<"SESSION_DATA_DELETED", 1643>>,
      <<"SESSION_DATA_ENCRYPTED", 1644>>, <<"SESSION_DATA_DECRYPTED", 1645>>>>],
    \* class StateChangeEvent(IntEnum), lines 414-458
    [name |-> "StateChangeEvent", members |-> <<
      <<"STATE_CREATED", 600>>, <<"STATE_INITIALIZED", 601>>, <<"STATE_ACTIVATED", 602>>,
      <<"STATE_DEACTIVATED", 603>>, <<"STATE_UPDATED", 604>>, <<"STATE_DELETED", 605>>,
      <<"STATE_ARCHIVED", 606>>, <<"STATE_RESTORED", 607>>, <<"STATE_TRANSITION_START", 620>>,
      <<"STATE_TRANSITION_COMPLETE", 621>>, <<"STATE_TRANSITION_FAILED", 622>>,
      <<"STATE_VALIDATED", 623>>, <<"STATE_INVALID", 624>>, <<"STATE_LOCKED", 625>>,
      <<"STATE_UNLOCKED", 626>>, <<"STATE_ROLLED_BACK", 627>>, <<"STATE_SAVED", 640>>,
      <<"STATE_LOADED", 641>>, <<"STATE_CACHED", 642>>, <<"STATE_FLUSHED", 643>>,
      <<"STATE_SYNCHRONIZED", 644>>, <<"STATE_REPLICATED", 645>>, <<"STATE_BACKED_UP", 646>>,
      <<"CHECKPOINT_CREATED", 647>>, <<"STATE_CONSISTENT", 660>>, <<"STATE_INCONSISTENT", 661>>,
      <<"STATE_CONVERGED", 662>>, <<"STATE_DIVERGED", 663>>, <<"CONFLICT_DETECTED", 664>>,
      <<"CONFLICT_RESOLVED", 665>>, <<"MERGE_COMPLETED", 666>>, <<"SPLIT_COMPLETED", 667>>>>],
    \* class StorageType(IntEnum), lines 1312-1346
    [name |-> "StorageType", members |-> <<
      <<"HOT_STORAGE", 4200>>, <<"WARM_STORAGE", 4201>>, <<"COLD_STORAGE", 4202>>,
      <<"ARCHIVE_STORAGE", 4203>>, <<"CACHE_STORAGE", 4204>>, <<"BLOCK_STORAGE", 4220>>,
      <<"FILE_STORAGE", 4221>>, <<"OBJECT_STORAGE", 4222>>, <<"TAPE_STORAGE", 4223>>,
      <<"MEMORY_STORAGE", 4224>>, <<"NFS", 4240>>, <<"SMB", 4241>>, <<"ISCSI", 4242>>,
      <<"FC", 4243>>, <<"S3", 4244>>, <<"SWIFT", 4245>>, <<"DEDUPLICATION", 4260>>,
      <<"COMPRESSION", 4261>>, <<"ENCRYPTION", 4262>>, <<"REPLICATION", 4263>>,
      <<"SNAPSHOT", 4264>>, <<"TIERING", 4265>>>>],
    \* class SystemEvent(IntEnum), lines 143-185
    [name |-> "SystemEvent", members |-> <<
      <<"SYSTEM_STARTUP", 100>>, <<"SYSTEM_READY", 101>>, <<"SYSTEM_SHUTDOWN", 102>>,
      <<"SYSTEM_RESTART", 103>>, <<"SYSTEM_UPGRADE", 104>>, <<"SYSTEM_MAINTENANCE", 105>>,
      <<"SYSTEM_HEALTH_CHECK", 106>>, <<"SYSTEM_BACKUP", 107>>, <<"SYSTEM_RESTORE", 108>>,
      <<"COMPONENT_REGISTERED", 120>>, <<"COMPONENT_STARTED", 121>>,
      <<"COMPONENT_STOPPED", 122>>, <<"COMPONENT_FAILED", 123>>, <<"COMPONENT_RECOVERED", 124>>,
      <<"COMPONENT_UPDATED", 125>>, <<"COMPONENT_REMOVED", 126>>, <<"CONFIG_LOADED", 140>>,
      <<"CONFIG_CHANGED", 141>>, <<"CONFIG_VALIDATED", 142>>, <<"CONFIG_INVALID", 143>>,
      <<"CONFIG_RELOADED", 144>>, <<"FEATURE_ENABLED", 145>>, <<"FEATURE_DISABLED", 146>>,
      <<"RESOURCE_ALLOCATED", 160>>, <<"RESOURCE_RELEASED", 161>>, <<"RESOURCE_EXHAUSTED", 162>>,
      <<"RESOURCE_SCALED", 163>>, <<"MEMORY_PRESSURE", 164>>, <<"CPU_THROTTLED", 165>>,
      <<"DISK_FULL", 166>>>>],
    \* class SystemMetadataEvent(IntEnum), lines 529-563
    [name |-> "SystemMetadataEvent", members |-> <<
      <<"METRIC_RECORDED", 900>>, <<"METRIC_AGGREGATED", 901>>, <<"THRESHOLD_EXCEEDED", 902>>,
      <<"THRESHOLD_NORMAL", 903>>, <<"ANOMALY_DETECTED", 904>>, <<"TREND_IDENTIFIED", 905>>,
      <<"AUDIT_LOG_CREATED", 920>>, <<"COMPLIANCE_CHECK", 921>>, <<"POLICY_VIOLATION", 922>>,
      <<"ACCESS_LOGGED", 923>>, <<"CHANGE_TRACKED", 924>>, <<"HEALTH_CHECK_PASSED", 940>>,
      <<"HEALTH_CHECK_FAILED", 941>>, <<"ALERT_TRIGGERED", 942>>, <<"ALERT_RESOLVED", 943>>,
      <<"PROBE_SUCCEEDED", 944>>, <<"PROBE_FAILED", 945>>, <<"GARBAGE_COLLECTED", 960>>,
      <<"CACHE_CLEARED", 961>>, <<"INDEX_REBUILT", 962>>, <<"STATISTICS_UPDATED", 963>>,
      <<"MAINTENANCE_COMPLETED", 964>>>>],
    \* class ThirdPartyService(IntEnum), lines 2554-2586
    [name |-> "ThirdPartyService", members |-> <<
      <<"STRIPE_INTEGRATION", 8400>>, <<"PAYPAL_INTEGRATION", 8401>>,
      <<"SQUARE_INTEGRATION", 8402>>, <<"PAYMENT_GATEWAY", 8403>>, <<"CRYPTO_PAYMENT", 8404>>,
      <<"AWS_SERVICE", 8420>>, <<"AZURE_SERVICE", 8421>>, <<"GCP_SERVICE", 8422>>,
      <<"CLOUDFLARE", 8423>>, <<"CDN_SERVICE", 8424>>, <<"TWILIO_SMS", 8440>>,
      <<"SENDGRID_EMAIL", 8441>>, <<"MAILGUN", 8442>>, <<"SLACK_API", 8443>>,
      <<"DISCORD_API", 8444>>, <<"GOOGLE_ANALYTICS", 8460>>, <<"MIXPANEL", 8461>>,
      <<"SEGMENT", 8462>>, <<"AMPLITUDE", 8463>>, <<"HOTJAR", 8464>>>>],
    \* class UniversalPriority(IntEnum), lines 99-110
    [name |-> "UniversalPriority", members |-> <<
      <<"LOWEST", 50>>, <<"LOW", 52>>, <<"BELOW_NORMAL", 54>>, <<"NORMAL", 56>>,
      <<"ABOVE_NORMAL", 58>>, <<"HIGH", 60>>, <<"URGENT", 62>>, <<"CRITICAL", 64>>,
      <<"EMERGENCY", 66>>, <<"SYSTEM", 68>>>>],
    \* class UniversalResult(IntEnum), lines 127-135
    [name |-> "UniversalResult", members |-> <<
      <<"SUCCESS", 90>>, <<"PARTIAL_SUCCESS", 91>>, <<"FAILURE", 92>>, <<"RETRY", 93>>,
      <<"SKIP", 94>>, <<"ABORT", 95>>, <<"ROLLBACK", 96>>>>],
    \* class UniversalSeverity(IntEnum), lines 113-124
    [name |-> "UniversalSeverity", members |-> <<
      <<"TRACE", 70>>, <<"DEBUG", 72>>, <<"VERBOSE", 74>>, <<"INFO", 76>>, <<"NOTICE", 78>>,
      <<"WARNING", 80>>, <<"ERROR", 82>>, <<"CRITICAL", 84>>, <<"ALERT", 86>>, <<"EMERGENCY", 88>>>>],
    \* class UniversalStatus(IntEnum), lines 41-95
    [name |-> "UniversalStatus", members |-> <<
      <<"UNKNOWN", 0>>, <<"INITIALIZING", 1>>, <<"INITIALIZED", 2>>, <<"PENDING", 3>>,
      <<"QUEUED", 4>>, <<"SCHEDULED", 5>>, <<"PREPARING", 6>>, <<"READY", 7>>,
      <<"STARTING", 10>>, <<"ACTIVE", 11>>, <<"RUNNING", 12>>, <<"PROCESSING", 13>>,
      <<"EXECUTING", 14>>, <<"IN_PROGRESS", 15>>, <<"BUSY", 16>>, <<"WORKING", 17>>,
      <<"COMPLETING", 20>>, <<"COMPLETED", 21>>, <<"SUCCEEDED", 22>>, <<"FINISHED", 23>>,
      <<"DONE", 24>>, <<"FINALIZED", 25>>, <<"ARCHIVED", 26>>, <<"WARNING", 30>>,
      <<"ERROR", 31>>, <<"FAILED", 32>>, <<"CRASHED", 33>>, <<"TIMEOUT", 34>>,
      <<"CANCELLED", 35>>, <<"REJECTED", 36>>, <<"INVALID", 37>>, <<"CORRUPTED", 38>>,
      <<"PAUSED", 40>>, <<"SUSPENDED", 41>>, <<"BLOCKED", 42>>, <<"WAITING", 43>>,
      <<"DEFERRED", 44>>, <<"ON_HOLD", 45>>, <<"HIBERNATED", 46>>>>],
    \* class UserEvent(IntEnum), lines 195-239
    [name |-> "UserEvent", members |-> <<
      <<"USER_LOGIN", 200>>, <<"USER_LOGOUT", 201>>, <<"USER_REGISTER", 202>>,
      <<"USER_VERIFIED", 203>>, <<"USER_BLOCKED", 204>>, <<"USER_UNBLOCKED", 205>>,
      <<"PASSWORD_CHANGED", 206>>, <<"PASSWORD_RESET", 207>>, <<"TWO_FACTOR_ENABLED", 208>>,
      <<"TWO_FACTOR_VERIFIED", 209>>, <<"SESSION_STARTED", 220>>, <<"SESSION_RESUMED", 221>>,
      <<"SESSION_EXPIRED", 222>>, <<"SESSION_TERMINATED", 223>>, <<"SESSION_IDLE", 224>>,
      <<"SESSION_ACTIVE", 225>>, <<"USER_ACTION", 240>>, <<"USER_CREATED", 241>>,
      <<"USER_UPDATED", 242>>, <<"USER_DELETED", 243>>, <<"USER_SEARCHED", 244>>,
      <<"USER_FILTERED", 245>>, <<"USER_EXPORTED", 246>>, <<"USER_IMPORTED", 247>>,
      <<"USER_ACTIVATED", 260>>, <<"USER_DEACTIVATED", 261>>, <<"USER_SUSPENDED", 262>>,
      <<"USER_ARCHIVED", 263>>, <<"ROLE_ASSIGNED", 264>>, <<"ROLE_REMOVED", 265>>,
      <<"PERMISSION_GRANTED", 266>>, <<"PERMISSION_REVOKED", 267>>>>],
    \* class UserRole(IntEnum), lines 573-620
    [name |-> "UserRole", members |-> <<
      <<"ANONYMOUS", 1000>>, <<"GUEST", 1001>>, <<"USER", 1002>>, <<"MEMBER", 1003>>,
      <<"SUBSCRIBER", 1004>>, <<"CONTRIBUTOR", 1005>>, <<"MODERATOR", 1006>>,
      <<"ADMINISTRATOR", 1007>>, <<"SUPER_ADMIN", 1008>>, <<"SYSTEM", 1009>>,
      <<"EMPLOYEE", 1020>>, <<"MANAGER", 1021>>, <<"DIRECTOR", 1022>>, <<"EXECUTIVE", 1023>>,
      <<"OWNER", 1024>>, <<"PARTNER", 1025>>, <<"CONTRACTOR", 1026>>, <<"VENDOR", 1027>>,
      <<"CLIENT", 1028>>, <<"DEVELOPER", 1040>>, <<"TESTER", 1041>>, <<"ANALYST", 1042>>,
      <<"DESIGNER", 1043>>, <<"ARCHITECT", 1044>>, <<"OPERATOR", 1045>>, <<"SUPPORT", 1046>>,
      <<"AUDITOR", 1047>>, <<"COMPLIANCE", 1048>>, <<"SERVICE_ACCOUNT", 1060>>,
      <<"API_CLIENT", 1061>>, <<"INTEGRATION", 1062>>, <<"SCHEDULER", 1063>>,
      <<"MONITOR", 1064>>, <<"BACKUP_SERVICE", 1065>>, <<"MIGRATION_SERVICE", 1066>>>>],
    \* class WebhookEvent(IntEnum), lines 2592-2626
    [name |-> "WebhookEvent", members |-> <<
      <<"WEBHOOK_REGISTERED", 8600>>, <<"WEBHOOK_VERIFIED", 8601>>, <<"WEBHOOK_UPDATED", 8602>>,
      <<"WEBHOOK_DELETED", 8603>>, <<"WEBHOOK_ENABLED", 8604>>, <<"WEBHOOK_DISABLED", 8605>>,
      <<"WEBHOOK_TRIGGERED", 8620>>, <<"WEBHOOK_SENT", 8621>>, <<"WEBHOOK_DELIVERED", 8622>>,
      <<"WEBHOOK_FAILED", 8623>>, <<"WEBHOOK_RETRY", 8624>>, <<"WEBHOOK_TIMEOUT", 8625>>,
      <<"SIGNATURE_VERIFIED", 8640>>, <<"SIGNATURE_INVALID", 8641>>, <<"SECRET_ROTATED", 8642>>,
      <<"IP_WHITELISTED", 8643>>, <<"REPLAY_DETECTED", 8644>>, <<"ENDPOINT_TESTED", 8660>>,
      <<"PAYLOAD_VALIDATED", 8661>>, <<"FILTER_APPLIED", 8662>>,
      <<"TRANSFORMATION_APPLIED", 8663>>, <<"BATCH_WEBHOOK", 8664>>>>],
    \* class WorkflowEvent(IntEnum), lines 249-294
    [name |-> "WorkflowEvent", members |-> <<
      <<"WORKFLOW_CREATED", 300>>, <<"WORKFLOW_STARTED", 301>>, <<"WORKFLOW_PAUSED", 302>>,
      <<"WORKFLOW_RESUMED", 303>>, <<"WORKFLOW_COMPLETED", 304>>, <<"WORKFLOW_FAILED", 305>>,
      <<"WORKFLOW_CANCELLED", 306>>, <<"WORKFLOW_TIMEOUT", 307>>, <<"WORKFLOW_RETRY", 308>>,
      <<"TASK_CREATED", 320>>, <<"TASK_ASSIGNED", 321>>, <<"TASK_STARTED", 322>>,
      <<"TASK_PROGRESS", 323>>, <<"TASK_COMPLETED", 324>>, <<"TASK_FAILED", 325>>,
      <<"TASK_SKIPPED", 326>>, <<"TASK_DELEGATED", 327>>, <<"PROCESS_INITIATED", 340>>,
      <<"PROCESS_APPROVED", 341>>, <<"PROCESS_REJECTED", 342>>, <<"PROCESS_ESCALATED", 343>>,
      <<"PROCESS_AUTOMATED", 344>>, <<"STEP_COMPLETED", 345>>, <<"CHECKPOINT_REACHED", 346>>,
      <<"MILESTONE_ACHIEVED", 347>>, <<"DECISION_REQUIRED", 360>>, <<"DECISION_MADE", 361>>,
      <<"DECISION_DEFERRED", 362>>, <<"APPROVAL_REQUESTED", 363>>, <<"APPROVAL_GRANTED", 364>>,
      <<"APPROVAL_DENIED", 365>>, <<"CONDITION_MET", 366>>, <<"CONDITION_FAILED", 367>>>>],
    \* class WorkflowOrchestration(IntEnum), lines 2012-2048
    [name |-> "WorkflowOrchestration", members |-> <<
      <<"ORCHESTRATION_STARTED", 6200>>, <<"ORCHESTRATION_PAUSED", 6201>>,
      <<"ORCHESTRATION_RESUMED", 6202>>, <<"ORCHESTRATION_COMPLETED", 6203>>,
      <<"ORCHESTRATION_FAILED", 6204>>, <<"ORCHESTRATION_TIMEOUT", 6205>>,
      <<"BRANCH_EVALUATED", 6220>>, <<"CONDITION_CHECKED", 6221>>, <<"LOOP_STARTED", 6222>>,
      <<"LOOP_ITERATION", 6223>>, <<"LOOP_COMPLETED", 6224>>, <<"PARALLEL_SPLIT", 6225>>,
      <<"PARALLEL_JOIN", 6226>>, <<"TASK_SCHEDULED", 6240>>, <<"TASK_DISPATCHED", 6241>>,
      <<"TASK_CLAIMED", 6242>>, <<"TASK_RELEASED", 6243>>, <<"TASK_ESCALATED", 6244>>,
      <<"TASK_TIMED_OUT", 6245>>, <<"STATE_PERSISTED", 6260>>, <<"STATE_RESTORED", 6261>>,
      <<"CHECKPOINT_CREATED", 6262>>, <<"ROLLBACK_INITIATED", 6263>>,
      <<"COMPENSATION_TRIGGERED", 6264>>>>]
  >>

\* ---------------------------------------------------------------------------
\* Discovery & Translation Engine: StreamlinedDiscoveryTranslator
\* ---------------------------------------------------------------------------
_build_accurate_range_definitions ==
  << [name |-> "universal_foundation", start |-> 0, end |-> 99,
      description |-> "Universal Status/Priority/Severity/Result"],
     [name |-> "system_events", start |-> 100, end |-> 199,
      description |-> "Core System Events"],
     [name |-> "user_events", start |-> 200, end |-> 299,
      description |-> "User Interaction Events"],
     [name |-> "workflow_events", start |-> 300, end |-> 399,
      description |-> "Workflow and Process Events"],
     [name |-> "error_events", start |-> 400, end |-> 499,
      description |-> "Error and Exception Events"],
     [name |-> "communication_events", start |-> 500, end |-> 599,
      description |-> "Inter-service Communication"],
     [name |-> "state_change_events", start |-> 600, end |-> 699,
      description |-> "Entity State Changes"],
     [name |-> "integration_events", start |-> 700, end |-> 799,
      description |-> "External System Integration"],
     [name |-> "reserved_extension", start |-> 800, end |-> 899,
      description |-> "Reserved for Extensions"],
     [name |-> "system_metadata", start |-> 900, end |-> 999,
      description |-> "System Metadata Events"],
     [name |-> "auth_system", start |-> 1000, end |-> 1999,
      description |-> "Authentication & Authorization"],
     [name |-> "infrastructure", start |-> 2000, end |-> 3999,
      description |-> "Infrastructure & Containers"],
     [name |-> "data_storage", start |-> 4000, end |-> 4999,
      description |-> "Data & Storage Systems"],
     [name |-> "ai_ml", start |-> 5000, end |-> 5999,
      description |-> "AI & Machine Learning"],
     [name |-> "business_logic", start |-> 6000, end |-> 6999,
      description |-> "Business Logic & Workflows"],
     [name |-> "monitoring", start |-> 7000, end |-> 7999,
      description |-> "Monitoring & Observability"],
     [name |-> "integration", start |-> 8000, end |-> 8999,
      description |-> "Integration & External Systems"],
     [name |-> "application", start |-> 9000, end |-> 9999,
      description |-> "Application-Specific"],
     [name |-> "industry_specific", start |-> 10000, end |-> 14999,
      description |-> "Industry-Specific Codes"],
     [name |-> "behavioral_ai", start |-> 15000, end |-> 19999,
      description |-> "Behavioral Prediction & Advanced AI"],
     [name |-> "company_specific", start |-> 20000, end |-> 29999,
      description |-> "Company-Specific Extensions"],
     [name |-> "future_expansion", start |-> 30000, end |-> 99999,
      description |-> "Future Expansion Space"] >>

\* The range table's entry for a system name; <<>> when there is none
\* (self._range_definitions.get(system, {}))
RangeInfo(ranges, system) ==
  IF \E i \in 1..Len(ranges) : ranges[i].name = system
  THEN <<ranges[CHOOSE i \in 1..Len(ranges) : ranges[i].name = system]>>
  ELSE <<>>

RECURSIVE RangeScan(_, _, _)
\* the for loop of _determine_system_from_code over an integer code
RangeScan(ranges, n, i) ==
  IF i > Len(ranges) THEN "unknown_range"
  ELSE IF ranges[i].start <= n /\ n <= ranges[i].end THEN ranges[i].name
  ELSE RangeScan(ranges, n, i + 1)

\* _determine_system_from_code with 'start <= code < end' in place of
\* 'start <= code <= end'
DetermineSystemExclusiveEnd(self, code) ==
  LET ranges == self._range_definitions
      hits == {i \in 1..Len(ranges) : ranges[i].start <= code.v /\ code.v < ranges[i].end}
  IN IF code.t # "int" THEN Raise(self, "TypeError", CompareErrorMsg(code))
     ELSE Return(self, IF hits = {} THEN "unknown_range"
                       ELSE ranges[CHOOSE i \in hits : \A j \in hits : i <= j].name)

\* _determine_system_from_code(code) on the range table of self: the first
\* range, in table order, that contains the code; comparing a non-number
\* with the range bounds raises TypeError
_determine_system_from_code(self, code) ==
  IF code.t = "int" THEN Return(self, RangeScan(self._range_definitions, code.v, 1))
  ELSE Raise(self, "TypeError", CompareErrorMsg(code))

\* Iterating an IntEnum yields its canonical members: a member whose value
\* repeats an earlier member's value is an alias and is skipped
EnumItems(members) ==
  SelectSeq([k \in 1..Len(members) |->
               [name |-> members[k][1], value |-> members[k][2],
                alias |-> \E j \in 1..(k - 1) : members[j][2] = members[k][2]]],
            LAMBDA m : ~m.alias)

RECURSIVE EnumItemsFrom(_, _)
\* The enum items in the order _discover_all_codes visits them: group by
\* group in dir() order, each group's canonical members in declaration order
EnumItemsFrom(classes, i) ==
  IF i > Len(classes) THEN <<>>
  ELSE LET items == EnumItems(classes[i].members)
       IN [k \in 1..Len(items) |->
             [enum_class_name |-> classes[i].name, name |-> items[k].name,
              value |-> items[k].value]]
          \o EnumItemsFrom(classes, i + 1)

\* _discover_all_codes on a translator whose registry is still empty: the
\* statement self._code_registry[enum_item.value] = {...} runs once per enum
\* item, in order.  A dict keeps a key at the position of its first
\* assignment and holds the value of its last assignment.  No group of the
\* registry module raises during the scan, so discovery_errors is 0.
_discover_all_codes(self) ==
  LET items == EnumItemsFrom(IntEnumClasses, 1)
      n == Len(items)
      IsFirst(k) == \A j \in 1..(k - 1) : items[j].value # items[k].value
      IsLast(k) == \A j \in (k + 1)..n : items[j].value # items[k].value
      firsts == SelectSeq([k \in 1..n |-> k], IsFirst)
      Registered(k) ==
        [name |-> Lower(items[k].name),
         enum_class_name |-> items[k].enum_class_name,
         system |-> _determine_system_from_code(self, PyInt(items[k].value)).val]
  IN [self EXCEPT
        !._code_registry =
           [order |-> [i \in 1..Len(firsts) |-> items[firsts[i]].value],
            entry |-> [v \in {items[k].value : k \in 1..n} |->
                         Registered(CHOOSE k \in 1..n : items[k].value = v /\ IsLast(k))]],
        !._stats.discovery_errors = 0]

\* StreamlinedDiscoveryTranslator.__init__
StreamlinedDiscoveryTranslator ==
  _discover_all_codes(
    [_code_registry |-> [order |-> <<>>, entry |-> EmptyDict],
     _translation_cache |-> EmptyDict,
     _system_cache |-> EmptyDict,
     _range_definitions |-> _build_accurate_range_definitions,
     _stats |-> [total_translations |-> 0, cache_hits |-> 0, discovery_errors |-> 0]])

\* code in d, for a dict d keyed by integers (only integers are ever stored)
HasKey(d, code) == code.t = "int" /\ code.v \in DOMAIN d

\* str(x) / f"{x}": a string as it is, any other value by its repr; a
\* non-negative float is held in tenths, a dict is abbreviated
StrOf(x) ==
  LET RECURSIVE Repr(_), Items(_, _)
      Items(items, i) ==
        IF i > Len(items) THEN ""
        ELSE IF i = Len(items) THEN Repr(items[i])
        ELSE Repr(items[i]) \o ", " \o Items(items, i + 1)
      Repr(y) ==
        CASE y.t = "int" -> ToString(y.v)
          [] y.t = "str" -> "'" \o y.v \o "'"
          [] y.t = "NoneType" -> "None"
          [] y.t = "float" -> ToString(y.v \div 10) \o "." \o ToString(y.v % 10)
          [] y.t = "list" -> "[" \o Items(y.v, 1) \o "]"
          [] OTHER -> "{...}"
  IN IF x.t = "str" THEN x.v ELSE Repr(x)

\* translate_code that neither reads nor fills the translation cache
TranslateCodeUncached(self, code) ==
  LET counted == [self EXCEPT !._stats.total_translations = @ + 1]
  IN IF ~Hashable(code) THEN Raise(counted, "TypeError", UnhashableMsg(code))
     ELSE IF HasKey(counted._code_registry.entry, code)
     THEN Return(counted, counted._code_registry.entry[code.v].name)
     ELSE LET found == _determine_system_from_code(counted, code)
          IN IF found.raised THEN found
             ELSE Return(counted, "unknown_" \o found.val \o "_" \o StrOf(code))

\* translate_code that raises KeyError for a code the registry does not hold
TranslateCodeStrict(self, code) ==
  LET counted == [self EXCEPT !._stats.total_translations = @ + 1]
  IN IF ~Hashable(code) THEN Raise(counted, "TypeError", UnhashableMsg(code))
     ELSE IF HasKey(counted._translation_cache, code)
     THEN Return([counted EXCEPT !._stats.cache_hits = @ + 1],
                 counted._translation_cache[code.v])
     ELSE IF HasKey(counted._code_registry.entry, code)
     THEN Return([counted EXCEPT !._translation_cache =
                    (code.v :> counted._code_registry.entry[code.v].name) @@ @],
                 counted._code_registry.entry[code.v].name)
     ELSE Raise(counted, "KeyError", StrOf(code))

\* translate_code(code): count the call, answer from the cache when the code
\* is cached, else from the registry, else synthesize unknown_{system}_{code};
\* cache the answer
translate_code(self, code) ==
  LET counted == [self EXCEPT !._stats.total_translations = @ + 1]
      Unknown(found) ==
        IF found.raised THEN found
        ELSE Return([counted EXCEPT !._translation_cache =
                       (code.v :> "unknown_" \o found.val \o "_" \o StrOf(code)) @@ @],
                    "unknown_" \o found.val \o "_" \o StrOf(code))
  IN IF ~Hashable(code) THEN Raise(counted, "TypeError", UnhashableMsg(code))
     ELSE IF HasKey(counted._translation_cache, code)
     THEN Return([counted EXCEPT !._stats.cache_hits = @ + 1],
                 counted._translation_cache[code.v])
     ELSE IF HasKey(counted._code_registry.entry, code)
     THEN Return([counted EXCEPT !._translation_cache =
                    (code.v :> counted._code_registry.entry[code.v].name) @@ @],
                 counted._code_registry.entry[code.v].name)
     ELSE Unknown(_determine_system_from_code(counted, code))

\* get_system_for_code(code): cached system, else the registry entry's
\* system, else the range scan; cache the answer
get_system_for_code(self, code) ==
  LET Scanned(found) ==
        IF found.raised THEN found
        ELSE Return([self EXCEPT !._system_cache = (code.v :> found.val) @@ @], found.val)
  IN IF ~Hashable(code) THEN Raise(self, "TypeError", UnhashableMsg(code))
     ELSE IF HasKey(self._system_cache, code)
     THEN Return(self, self._system_cache[code.v])
     ELSE IF HasKey(self._code_registry.entry, code)
     THEN Return([self EXCEPT !._system_cache =
                    (code.v :> self._code_registry.entry[code.v].system) @@ @],
                 self._code_registry.entry[code.v].system)
     ELSE Scanned(_determine_system_from_code(self, code))

\* format_code_with_context(code) = f"{code}({name}) [{system}]"
format_code_with_context(self, code) ==
  LET Formatted(name, system) ==
        IF system.raised THEN system
        ELSE Return(system.self,
                    StrOf(code) \o "(" \o name.val \o ") [" \o system.val \o "]")
      Named(name) ==
        IF name.raised THEN name
        ELSE Formatted(name, get_system_for_code(name.self, code))
  IN Named(translate_code(self, code))

\* get_code_info(code): the registry entry plus code and formatted, or the
\* synthesized record of an unregistered code
get_code_info(self, code) ==
  LET Known(formatted) ==
        IF formatted.raised THEN formatted
        ELSE Return(formatted.self,
                    [name |-> self._code_registry.entry[code.v].name,
                     enum_class_name |-> self._code_registry.entry[code.v].enum_class_name,
                     system |-> self._code_registry.entry[code.v].system,
                     code |-> code,
                     formatted |-> formatted.val])
      Unknown(found, formatted) ==
        IF formatted.raised THEN formatted
        ELSE Return(formatted.self,
                    [code |-> code,
                     name |-> "unknown_" \o found.val \o "_" \o StrOf(code),
                     system |-> found.val,
                     enum_class_name |-> "Unknown",
                     formatted |-> formatted.val])
      Scanned(found) ==
        IF found.raised THEN found
        ELSE Unknown(found, format_code_with_context(self, code))
  IN IF ~Hashable(code) THEN Raise(self, "TypeError", UnhashableMsg(code))
     ELSE IF HasKey(self._code_registry.entry, code)
     THEN Known(format_code_with_context(self, code))
     ELSE Scanned(_determine_system_from_code(self, code))

\* bool(x): Python truthiness
Truthy(x) ==
  CASE x.t = "NoneType" -> FALSE
    [] x.t = "int" -> x.v # 0
    [] x.t = "str" -> Len(x.v) > 0
    [] x.t = "list" -> Len(x.v) > 0
    [] x.t = "dict" -> DOMAIN x.v # {}
    [] OTHER -> TRUE

NoAttributeMsg(x, attr) == "'" \o x.t \o "' object has no attribute '" \o attr \o "'"

\* sorted(S) for a set of integers
SortedCodes(S) ==
  [i \in 1..Cardinality(S) |-> CHOOSE c \in S : Cardinality({d \in S : d < c}) = i - 1]

RECURSIVE SortedPrefix(_, _)
\* sorted(S)[:k]
SortedPrefix(S, k) ==
  IF k = 0 \/ S = {} THEN <<>>
  ELSE LET m == CHOOSE x \in S : \A y \in S : x <= y
       IN <<m>> \o SortedPrefix(S \ {m}, k - 1)

\* find_codes_by_name(search_term): get_code_info of every registered code
\* whose name or group name contains the lower-cased term, sorted by code.
\* The loop calls get_code_info once per matching key; the keys are distinct,
\* so each call finds the caches as they were for its own code
find_codes_by_name(self, search_term) ==
  IF search_term.t # "str"
  THEN Raise(self, "AttributeError", NoAttributeMsg(search_term, "lower"))
  ELSE LET search_term_lower == Lower(search_term.v)
           registry == self._code_registry.entry
           matched == {c \in DOMAIN registry :
                         \/ Contains(registry[c].name, search_term_lower)
                         \/ Contains(Lower(registry[c].enum_class_name), search_term_lower)}
           info(c) == get_code_info(self, PyInt(c))
           sorted == SortedCodes(matched)
       IN Return(
            [self EXCEPT
               !._translation_cache =
                  [c \in (DOMAIN @) \cup matched |->
                     IF c \in DOMAIN @ THEN @[c] ELSE info(c).self._translation_cache[c]],
               !._system_cache =
                  [c \in (DOMAIN @) \cup matched |->
                     IF c \in DOMAIN @ THEN @[c] ELSE info(c).self._system_cache[c]],
               !._stats.total_translations = @ + Cardinality(matched),
               !._stats.cache_hits =
                  @ + Cardinality(matched \cap DOMAIN self._translation_cache)],
            [i \in 1..Len(sorted) |-> info(sorted[i]).val])

\* get_system_summary(): per range, capacity and usage (the utilization
\* percentage, a formatted float, is left out)
get_system_summary(self) ==
  LET ranges == self._range_definitions
      Summary(r) ==
        LET codes_in_range == {c \in DOMAIN self._code_registry.entry :
                                 r.start <= c /\ c <= r.end}
            total_capacity == r.end - r.start + 1
        IN [range |-> ToString(r.start) \o "-" \o ToString(r.end),
            description |-> r.description,
            total_capacity |-> total_capacity,
            codes_used |-> Cardinality(codes_in_range),
            codes_available |-> total_capacity - Cardinality(codes_in_range),
            defined_codes |-> SortedPrefix(codes_in_range, 10)]
  IN Return(self,
            [system \in {ranges[i].name : i \in 1..Len(ranges)} |->
               Summary(ranges[CHOOSE i \in 1..Len(ranges) :
                                /\ ranges[i].name = system
                                /\ \A j \in (i + 1)..Len(ranges) : ranges[j].name # system])])

\* get_statistics(): the counters (the formatted hit rate and discovery time,
\* floats, are left out)
get_statistics(self) ==
  Return(self,
         [total_codes_registered |-> Len(self._code_registry.order),
          total_translations_performed |-> self._stats.total_translations,
          cache_hits |-> self._stats.cache_hits,
          discovery_errors |-> self._stats.discovery_errors])

\* The keyword groups of suggest_code_allocation in the order of its
\* if/elif chain
KeywordChain ==
  << [words |-> <<"auth", "login", "permission", "role", "security">>,
      suggested_system |-> "auth_system",
      rationale |-> "Authentication-related concepts belong in auth system"],
     [words |-> <<"container", "docker", "kubernetes", "infrastructure">>,
      suggested_system |-> "infrastructure",
      rationale |-> "Infrastructure concepts belong in infrastructure range"],
     [words |-> <<"database", "storage", "cache", "backup">>,
      suggested_system |-> "data_storage",
      rationale |-> "Data-related concepts belong in data storage"],
     [words |-> <<"ai", "ml", "neural", "learning", "agent">>,
      suggested_system |-> "ai_ml",
      rationale |-> "AI/ML concepts belong in AI & ML range"],
     [words |-> <<"business", "workflow", "process", "rule">>,
      suggested_system |-> "business_logic",
      rationale |-> "Business concepts belong in business logic"],
     [words |-> <<"monitor", "health", "metric", "alert", "log">>,
      suggested_system |-> "monitoring",
      rationale |-> "Monitoring concepts belong in monitoring range"],
     [words |-> <<"api", "integration", "webhook", "external">>,
      suggested_system |-> "integration",
      rationale |-> "Integration concepts belong in integration range"],
     [words |-> <<"ui", "frontend", "mobile", "app">>,
      suggested_system |-> "application",
      rationale |-> "Application concepts belong in application range"] >>

RECURSIVE CategorizeLastMatch(_, _)
\* a chain in which a later branch overrides an earlier one: the last
\* branch, from branch i on, one of whose words occurs in concept_lower
CategorizeLastMatch(concept_lower, i) ==
  LET later == IF i >= Len(KeywordChain) THEN [suggested_system |-> "company_specific"]
               ELSE CategorizeLastMatch(concept_lower, i + 1)
  IN IF i > Len(KeywordChain)
     THEN [suggested_system |-> "company_specific",
           rationale |-> "Custom concepts can use company-specific extension range"]
     ELSE IF later.suggested_system # "company_specific" THEN later
     ELSE IF \E w \in 1..Len(KeywordChain[i].words) :
               Contains(concept_lower, KeywordChain[i].words[w])
     THEN [suggested_system |-> KeywordChain[i].suggested_system,
           rationale |-> KeywordChain[i].rationale]
     ELSE [suggested_system |-> "company_specific",
           rationale |-> "Custom concepts can use company-specific extension range"]

RECURSIVE Categorize(_, _)
\* the if/elif/else chain: the first branch, from branch i on, one of whose
\* words occurs in concept_lower
Categorize(concept_lower, i) ==
  IF i > Len(KeywordChain)
  THEN [suggested_system |-> "company_specific",
        rationale |-> "Custom concepts can use company-specific extension range"]
  ELSE IF \E w \in 1..Len(KeywordChain[i].words) :
            Contains(concept_lower, KeywordChain[i].words[w])
  THEN [suggested_system |-> KeywordChain[i].suggested_system,
        rationale |-> KeywordChain[i].rationale]
  ELSE Categorize(concept_lower, i + 1)

\* a search loop that looks for one free code instead of a free block
FirstFreeCode(used_codes, start_range, end_range, estimated_size) ==
  IF \E s \in start_range..end_range : s \notin used_codes
  THEN PyInt(CHOOSE s \in start_range..end_range :
               s \notin used_codes /\ \A u \in start_range..(s - 1) : u \in used_codes)
  ELSE PyNone

\* the search loop of suggest_code_allocation: the first potential_start in
\* range(start_range, end_range - estimated_size + 2) whose block of
\* estimated_size codes holds no used code; None when the loop finds none
FirstFreeBlock(used_codes, start_range, end_range, estimated_size) ==
  LET last == end_range - estimated_size + 1
      BlockFree(s) == \A c \in s..(s + estimated_size - 1) : c \notin used_codes
  IN IF \E s \in start_range..last : BlockFree(s)
     THEN PyInt(CHOOSE s \in start_range..last :
                  BlockFree(s) /\ \A u \in start_range..(s - 1) : ~BlockFree(u))
     ELSE PyNone

\* suggest_code_allocation without its input guard rails
SuggestUnguarded(self, concept_description, estimated_size) ==
  LET Categorized(category, system_info) ==
        Return(self,
               [suggested_system |-> category.suggested_system,
                rationale |-> category.rationale,
                range_start |-> system_info[1].start,
                range_end |-> system_info[1].end,
                suggested_start_code |->
                  FirstFreeBlock({code \in DOMAIN self._code_registry.entry :
                                    system_info[1].start <= code
                                      /\ code <= system_info[1].end},
                                 system_info[1].start, system_info[1].end,
                                 estimated_size.v),
                estimated_codes_needed |-> estimated_size.v])
      Chosen(category) ==
        Categorized(category, RangeInfo(self._range_definitions, category.suggested_system))
  IN Chosen(Categorize(Lower(StrOf(concept_description)), 1))

\* suggest_code_allocation(concept_description, estimated_size)
suggest_code_allocation(self, concept_description, estimated_size) ==
  LET Allocate(category, system_info) ==
        LET start_range == IF system_info = <<>> THEN 0 ELSE system_info[1].start
            end_range == IF system_info = <<>> THEN 0 ELSE system_info[1].end
            existing_codes == {code \in DOMAIN self._code_registry.entry :
                                 start_range <= code /\ code <= end_range}
            available_space == (end_range - start_range + 1) - Cardinality(existing_codes)
        IN IF available_space < estimated_size.v
           THEN Return(self,
                  [error |-> "Insufficient space in " \o category.suggested_system,
                   available_space |-> available_space,
                   requested_size |-> estimated_size.v,
                   suggested_alternative |->
                     "Consider using company_specific or future_expansion range"])
           ELSE Return(self,
                  [suggested_system |-> category.suggested_system,
                   rationale |-> category.rationale,
                   range_start |-> start_range,
                   range_end |-> end_range,
                   suggested_start_code |->
                     FirstFreeBlock(existing_codes, start_range, end_range,
                                    estimated_size.v),
                   estimated_codes_needed |-> estimated_size.v,
                   available_space |-> available_space,
                   system_description |->
                     IF system_info = <<>> THEN "Unknown system"
                     ELSE system_info[1].description,
                   validation_passed |-> TRUE])
      Categorized(category) ==
        Allocate(category, RangeInfo(self._range_definitions, category.suggested_system))
  IN IF ~Truthy(concept_description)
     THEN Return(self, [error |-> "Concept description cannot be empty"])
     ELSE IF concept_description.t # "str"
     THEN Raise(self, "AttributeError", NoAttributeMsg(concept_description, "strip"))
     ELSE IF Len(Strip(concept_description.v)) = 0
     THEN Return(self, [error |-> "Concept description cannot be empty"])
     ELSE IF Len(concept_description.v) > 200
     THEN Return(self, [error |-> "Concept description too long (max 200 characters)"])
     ELSE IF estimated_size.t # "int"
     THEN Raise(self, "TypeError",
                "'<=' not supported between instances of '" \o estimated_size.t
                  \o "' and 'int'")
     ELSE IF estimated_size.v <= 0 \/ estimated_size.v > 100
     THEN Return(self, [error |-> "Estimated size must be between 1 and 100"])
     ELSE Categorized(Categorize(Lower(concept_description.v), 1))

\* validate_code_addition(code, name, system): every violated guard rail
\* appends its message; valid when no message was appended
validate_code_addition(self, code, name, system) ==
  IF ~Hashable(code) THEN Raise(self, "TypeError", UnhashableMsg(code))
  ELSE IF ~Hashable(system) THEN Raise(self, "TypeError", UnhashableMsg(system))
  ELSE
    LET registry == self._code_registry.entry
        range_info == IF system.t = "str" THEN RangeInfo(self._range_definitions, system.v)
                      ELSE <<>>
        immutability ==
          IF HasKey(registry, code)
          THEN <<"Code " \o StrOf(code) \o " already exists with name '"
                   \o registry[code.v].name \o "' - codes are immutable">>
          ELSE <<>>
        range_errors ==
          IF range_info = <<>>
          THEN <<"System '" \o StrOf(system) \o "' is not a valid system">>
          ELSE IF ~(range_info[1].start <= code.v /\ code.v <= range_info[1].end)
          THEN <<"Code " \o StrOf(code) \o " is outside valid range for system '"
                   \o system.v \o "' (" \o ToString(range_info[1].start) \o "-"
                   \o ToString(range_info[1].end) \o ")">>
          ELSE <<>>
        empty_name == IF Len(Strip(name.v)) = 0 THEN <<"Name cannot be empty">> ELSE <<>>
        long_name == IF Len(name.v) > 100 THEN <<"Name too long (max 100 characters)">>
                     ELSE <<>>
        name_lower == Lower(name.v)
        same_name == IF system.t # "str" THEN <<>>
                     ELSE SelectSeq(self._code_registry.order,
                                    LAMBDA c : /\ registry[c].system = system.v
                                               /\ registry[c].name = name_lower)
        uniqueness ==
          [i \in 1..Len(same_name) |->
             "Name '" \o name.v \o "' already exists in system '" \o system.v
               \o "' with code " \o ToString(same_name[i])]
        semantic ==
          IF ~IsAlnum(RemoveChar(RemoveChar(name.v, "_"), "-"))
          THEN <<"Name contains invalid characters (only letters, numbers, _, - allowed)">>
          ELSE <<>>
        validation_errors ==
          immutability \o range_errors \o empty_name \o long_name \o uniqueness \o semantic
    IN IF range_info # <<>> /\ code.t # "int"
       THEN Raise(self, "TypeError", CompareErrorMsg(code))
       ELSE IF name.t # "str"
       THEN Raise(self, IF Truthy(name) THEN "AttributeError" ELSE "TypeError",
                  IF Truthy(name) THEN NoAttributeMsg(name, "strip")
                  ELSE "object of type '" \o name.t \o "' has no len()")
       ELSE Return(self,
              [valid |-> Len(validation_errors) = 0,
               errors |-> validation_errors,
               code |-> code,
               name |-> name,
               system |-> system])

\* status_name(status_code) = translate_code(status_code).upper()
status_name(self, status_code) ==
  LET Named(name) == IF name.raised THEN name ELSE Return(name.self, Upper(name.val))
  IN Named(translate_code(self, status_code))

\* status_code(name): the first registry entry, in dict order, of the
\* universal_foundation system with this lower-cased name; 0 when there is none
status_code(self, name) ==
  LET name_lower == Lower(name)
      registry == self._code_registry
      Matches(i) == /\ registry.entry[registry.order[i]].name = name_lower
                    /\ registry.entry[registry.order[i]].system = "universal_foundation"
  IN IF \E i \in 1..Len(registry.order) : Matches(i)
     THEN Return(self, registry.order[CHOOSE i \in 1..Len(registry.order) :
                                        Matches(i) /\ \A j \in 1..(i - 1) : ~Matches(j)])
     ELSE Return(self, 0)

\* validate_code_range(code, system)
validate_code_range(self, code, system) ==
  IF ~Hashable(system) THEN Raise(self, "TypeError", UnhashableMsg(system))
  ELSE LET range_info == IF system.t = "str"
                         THEN RangeInfo(self._range_definitions, system.v) ELSE <<>>
       IN IF range_info = <<>> THEN Return(self, FALSE)
          ELSE IF code.t # "int" THEN Raise(self, "TypeError", CompareErrorMsg(code))
          ELSE Return(self, range_info[1].start <= code.v /\ code.v <= range_info[1].end)

\* ---------------------------------------------------------------------------
\* Request Handler (discovery.py, module level; it works on the global
\* streamlined_translator, passed here as self)
\* ---------------------------------------------------------------------------

\* request.get(key): None when the key is absent
DictGet(request, key) == IF key \in DOMAIN request.v THEN request.v[key] ELSE PyNone

\* request.get(key, default)
DictGetOr(request, key, default) ==
  IF key \in DOMAIN request.v THEN request.v[key] ELSE default

\* x == "literal" for a Python value x
IsStr(x, literal) == x.t = "str" /\ x.v = literal

\* _handle_code_request(code): the four lookups inside one try; any
\* exception becomes an error response carrying the code
_handle_code_request(self, code) ==
  LET Failed(r) == Return(r.self, [status |-> "error",
                                   error |-> "Code translation failed: " \o r.msg,
                                   code |-> code])
      Found(translation, system, formatted, code_info) ==
        IF code_info.raised THEN Failed(code_info)
        ELSE Return(code_info.self,
                    [status |-> "success",
                     request_type |-> "code_translation",
                     code |-> code,
                     translation |-> translation.val,
                     system |-> system.val,
                     formatted |-> formatted.val,
                     detailed_info |-> code_info.val])
      Formatted(translation, system, formatted) ==
        IF formatted.raised THEN Failed(formatted)
        ELSE Found(translation, system, formatted, get_code_info(formatted.self, code))
      Located(translation, system) ==
        IF system.raised THEN Failed(system)
        ELSE Formatted(translation, system, format_code_with_context(system.self, code))
      Translated(translation) ==
        IF translation.raised THEN Failed(translation)
        ELSE Located(translation, get_system_for_code(translation.self, code))
  IN Translated(translate_code(self, code))

\* _get_help_response()
_get_help_response ==
  [status |-> "success",
   request_type |-> "help",
   help |->
     [description |-> "Universal Integer Discovery System - Request Handler",
      supported_inputs |->
        [integer |-> "Direct code translation (e.g., 1000)",
         string_commands |->
           ("help or ?" :> "Show this help") @@
           ("stats" :> "Show system statistics") @@
           ("summary" :> "Show system summary") @@
           ("search <term>" :> "Search codes by name") @@
           ("suggest <concept>" :> "Suggest code allocation") @@
           ("validate <code> <name> <system>" :> "Validate code addition"),
         structured_requests |->
           [format |-> [operation |-> "...", parameters |-> "..."],
            operations |-> <<"translate", "search", "suggest", "validate",
                             "system_info", "range_check">>],
         batch_requests |-> "List of any supported request types"],
      examples |->
        [code_lookup |-> PyInt(1000),
         name_search |-> "search auth",
         suggestion |-> "suggest new payment system",
         structured |-> PyDict([operation |-> PyStr("translate"), code |-> PyInt(1000)]),
         batch |-> PyList(<<PyInt(1000), PyStr("search user"),
                            PyDict([operation |-> PyStr("stats")])>>)]]]

\* The name-search response shared by the string and structured handlers
NameSearchResponse(found, search_term) ==
  IF found.raised THEN found
  ELSE Return(found.self,
              [status |-> "success",
               request_type |-> "name_search",
               search_term |-> search_term,
               results |-> found.val,
               count |-> Len(found.val)])

\* _handle_string_request(request) for a str request (given as its text)
_handle_string_request(self, request) ==
  LET Suggested(concept, suggestion) ==
        IF suggestion.raised THEN suggestion
        ELSE Return(suggestion.self,
                    [status |-> "success",
                     request_type |-> "code_suggestion",
                     concept |-> PyStr(concept),
                     suggestion |-> suggestion.val])
      Validated(validation) ==
        IF validation.raised THEN validation
        ELSE Return(validation.self,
                    [status |-> "success",
                     request_type |-> "validation",
                     validation_result |-> validation.val])
      Validate(parts) ==
        IF Len(parts) >= 3
        THEN IF ~IsIntLiteral(parts[1])
             THEN Return(self,
                    [status |-> "error",
                     error |-> "Invalid validation format. Use: validate <code> <name> <system>"])
             ELSE Validated(validate_code_addition(self, PyInt(IntOfStr(parts[1])),
                                                   PyStr(parts[2]), PyStr(parts[3])))
        ELSE Return(self, [status |-> "error",
                           error |-> "Validation requires: code, name, and system"])
      Dispatch(request_lower) ==
        IF StartsWith(request_lower, "help") \/ request_lower = "?"
        THEN Return(self, _get_help_response)
        ELSE IF StartsWith(request_lower, "stats") \/ request_lower = "statistics"
        THEN Return(self, [status |-> "success",
                           request_type |-> "statistics",
                           data |-> get_statistics(self).val])
        ELSE IF StartsWith(request_lower, "summary") \/ request_lower = "systems"
        THEN Return(self, [status |-> "success",
                           request_type |-> "system_summary",
                           data |-> get_system_summary(self).val])
        ELSE IF StartsWith(request_lower, "search ")
        THEN NameSearchResponse(find_codes_by_name(self, PyStr(SliceFrom(request, 7))),
                                PyStr(SliceFrom(request, 7)))
        ELSE IF StartsWith(request_lower, "suggest ")
        THEN Suggested(SliceFrom(request, 8),
                       suggest_code_allocation(self, PyStr(SliceFrom(request, 8)), PyInt(10)))
        ELSE IF StartsWith(request_lower, "validate ")
        THEN Validate(Split(SliceFrom(request, 9)))
        ELSE IF IsDigit(request)
        THEN _handle_code_request(self, PyInt(IntOfStr(request)))
        ELSE NameSearchResponse(find_codes_by_name(self, PyStr(request)), PyStr(request))
  IN Dispatch(Strip(Lower(request)))

\* _handle_structured_request(request) for a dict request
_handle_structured_request(self, request) ==
  LET Error(msg) == Return(self, [status |-> "error", error |-> msg])
      Search(term) ==
        IF Truthy(term) THEN NameSearchResponse(find_codes_by_name(self, term), term)
        ELSE Error("Missing 'term' parameter")
      Suggested(concept, size, suggestion) ==
        IF suggestion.raised THEN suggestion
        ELSE Return(suggestion.self,
                    [status |-> "success",
                     request_type |-> "code_suggestion",
                     concept |-> concept,
                     size |-> size,
                     suggestion |-> suggestion.val])
      Suggest(concept, size) ==
        IF Truthy(concept)
        THEN Suggested(concept, size, suggest_code_allocation(self, concept, size))
        ELSE Error("Missing 'concept' parameter")
      Validated(validation) ==
        IF validation.raised THEN validation
        ELSE Return(validation.self,
                    [status |-> "success",
                     request_type |-> "validation",
                     validation_result |-> validation.val])
      Validate(code, name, system) ==
        IF code.t # "NoneType" /\ Truthy(name) /\ Truthy(system)
        THEN Validated(validate_code_addition(self, code, name, system))
        ELSE Error("Missing required parameters: code, name, system")
      Info(system_name, summary) ==
        IF ~Hashable(system_name)
        THEN Raise(self, "TypeError", UnhashableMsg(system_name))
        ELSE IF system_name.t = "str" /\ system_name.v \in DOMAIN summary
        THEN Return(self, [status |-> "success",
                           request_type |-> "system_info",
                           system |-> system_name,
                           info |-> summary[system_name.v]])
        ELSE Return(self,
               [status |-> "error",
                error |-> "System '" \o StrOf(system_name) \o "' not found",
                available_systems |->
                  [i \in 1..Len(self._range_definitions) |->
                     self._range_definitions[i].name]])
      SystemInfo(system_name) ==
        IF Truthy(system_name) THEN Info(system_name, get_system_summary(self).val)
        ELSE Error("Missing 'system' parameter")
      Checked(code, system, valid) ==
        IF valid.raised THEN valid
        ELSE Return(valid.self, [status |-> "success",
                                 request_type |-> "range_check",
                                 code |-> code,
                                 system |-> system,
                                 valid |-> valid.val])
      RangeCheck(code, system) ==
        IF code.t # "NoneType" /\ Truthy(system)
        THEN Checked(code, system, validate_code_range(self, code, system))
        ELSE Error("Missing 'code' or 'system' parameter")
      Translate(code) ==
        IF code.t # "NoneType" THEN _handle_code_request(self, code)
        ELSE Error("Missing 'code' parameter")
      Dispatch(operation) ==
        IF IsStr(operation, "translate") THEN Translate(DictGet(request, "code"))
        ELSE IF IsStr(operation, "search")
        THEN Search(IF Truthy(DictGet(request, "term")) THEN DictGet(request, "term")
                    ELSE DictGet(request, "search_term"))
        ELSE IF IsStr(operation, "suggest")
        THEN Suggest(DictGet(request, "concept"), DictGetOr(request, "size", PyInt(10)))
        ELSE IF IsStr(operation, "validate")
        THEN Validate(DictGet(request, "code"), DictGet(request, "name"),
                      DictGet(request, "system"))
        ELSE IF IsStr(operation, "system_info")
        THEN SystemInfo(DictGet(request, "system"))
        ELSE IF IsStr(operation, "range_check")
        THEN RangeCheck(DictGet(request, "code"), DictGet(request, "system"))
        ELSE Return(self,
               [status |-> "error",
                error |-> "Unknown operation: " \o StrOf(operation),
                available_operations |-> <<"translate", "search", "suggest", "validate",
                                           "system_info", "range_check">>])
  IN Dispatch(DictGetOr(request, "operation", PyStr("unknown")))

RECURSIVE handle_request(_, _)
RECURSIVE BatchItems(_, _, _, _)

\* a loop that returns after its first item
BatchFirstItemOnly(self, request, i, results) ==
  LET Handled(result) ==
        Return(result.self,
               Append(results,
                      IF result.raised
                      THEN [status |-> "error",
                            error |-> "Batch item " \o ToString(i - 1) \o " failed: "
                                        \o result.msg,
                            batch_index |-> i - 1]
                      ELSE [batch_index |-> i - 1] @@ result.val))
  IN IF i > Len(request) THEN Return(self, results)
     ELSE Handled(handle_request(self, request[i]))

\* the for loop of _handle_batch_request from item i on: results is the list
\* built so far; an item whose handling raises is reported as that item's error
BatchItems(self, request, i, results) ==
  LET Handled(result) ==
        BatchItems(result.self, request, i + 1,
          Append(results,
                 IF result.raised
                 THEN [status |-> "error",
                       error |-> "Batch item " \o ToString(i - 1) \o " failed: " \o result.msg,
                       batch_index |-> i - 1]
                 ELSE [batch_index |-> i - 1] @@ result.val))
  IN IF i > Len(request) THEN Return(self, results)
     ELSE Handled(handle_request(self, request[i]))

\* _handle_batch_request(request) for a list request (given as its items)
_handle_batch_request(self, request) ==
  LET Summarized(handled) ==
        Return(handled.self,
               [status |-> "success",
                request_type |-> "batch",
                total_requests |-> Len(request),
                results |-> handled.val,
                summary |->
                  [successful |-> Cardinality({i \in 1..Len(handled.val) :
                                                 handled.val[i].status = "success"}),
                   failed |-> Cardinality({i \in 1..Len(handled.val) :
                                             handled.val[i].status = "error"})]])
  IN Summarized(BatchItems(self, request, 1, <<>>))

\* handle_request without its try/except: an exception raised in the
\* dispatch reaches the caller
HandleRequestUncaught(self, request) ==
  CASE request.t = "int" -> _handle_code_request(self, request)
    [] request.t = "str" -> _handle_string_request(self, request.v)
    [] request.t = "dict" -> _handle_structured_request(self, request)
    [] request.t = "list" -> _handle_batch_request(self, request.v)
    [] OTHER -> Return(self,
                  [status |-> "error",
                   error |-> "Unsupported request type: " \o request.t,
                   supported_types |-> <<"int", "str", "dict", "list">>])

\* handle_request(request): dispatch on the request's type inside a try; an
\* exception raised anywhere in the dispatch becomes an error response
handle_request(self, request) ==
  LET Caught(dispatched) ==
        IF dispatched.raised
        THEN Return(dispatched.self,
                    [status |-> "error",
                     error |-> "Request processing failed: " \o dispatched.msg,
                     request_type |-> request.t])
        ELSE dispatched
  IN Caught(CASE request.t = "int" -> _handle_code_request(self, request)
              [] request.t = "str" -> _handle_string_request(self, request.v)
              [] request.t = "dict" -> _handle_structured_request(self, request)
              [] request.t = "list" -> _handle_batch_request(self, request.v)
              [] OTHER -> Return(self,
                            [status |-> "error",
                             error |-> "Unsupported request type: " \o request.t,
                             supported_types |-> <<"int", "str", "dict", "list">>]))

\* ---------------------------------------------------------------------------
\* Self-Sustaining Learning Service (self_sustaining.py).  The service keeps
\* a reference to the global translator; its methods take the service record
\* (self) and the translator (discovery) and give both back.
\* ---------------------------------------------------------------------------
Return2(self, discovery, val) ==
  [self |-> self, discovery |-> discovery, raised |-> FALSE, val |-> val]

Raise2(self, discovery, exc, msg) ==
  [self |-> self, discovery |-> discovery, raised |-> TRUE, exc |-> exc, msg |-> msg]

EmptyOrderedDict == [order |-> <<>>, entry |-> EmptyDict]

TwoDigits(n) == IF n < 10 THEN "0" \o ToString(n) ELSE ToString(n)

\* datetime.fromtimestamp(t).isoformat() for a whole number of seconds t of
\* the first day of the epoch, in UTC
IsoFormat(t) ==
  "1970-01-01T" \o TwoDigits(t \div 3600) \o ":" \o TwoDigits((t \div 60) % 60)
    \o ":" \o TwoDigits(t % 60)

\* _track_unknown_code that counts only the first sighting of a code
TrackFirstSightingOnly(self, code, context, now) ==
  IF code \notin DOMAIN self.unknown_codes.entry
  THEN [self EXCEPT !.unknown_codes =
          DictSet(@, code, [code |-> code, first_seen |-> now, last_seen |-> now,
                            count |-> 1, contexts |-> <<>>])]
  ELSE [self EXCEPT !.unknown_codes.entry[code].last_seen = now]

\* _track_unknown_code(code, context) at time now
_track_unknown_code(self, code, context, now) ==
  LET tracked ==
        IF code \notin DOMAIN self.unknown_codes.entry
        THEN [self EXCEPT !.unknown_codes =
                DictSet(@, code, [code |-> code, first_seen |-> now, last_seen |-> now,
                                  count |-> 1, contexts |-> <<>>])]
        ELSE [self EXCEPT !.unknown_codes.entry[code].count = @ + 1,
                          !.unknown_codes.entry[code].last_seen = now]
  IN IF Truthy(context)
     THEN [tracked EXCEPT !.unknown_codes.entry[code].contexts =
             Append(@, [timestamp |-> now, context |-> context])]
     ELSE tracked

\* translate_with_learning(code, context) at time now
translate_with_learning(self, discovery, code, context, now) ==
  LET counted == [self EXCEPT !.stats.translations = @ + 1]
      Unknown(translation, system, tracked) ==
        Return2(tracked, system.self,
                [code |-> code,
                 translation |-> translation.val,
                 system |-> system.val,
                 status |-> "unknown",
                 times_seen |-> tracked.unknown_codes.entry[code.v].count,
                 first_seen |-> IsoFormat(tracked.unknown_codes.entry[code.v].first_seen)])
      Located(translation, system) ==
        IF system.raised THEN Raise2(counted, system.self, system.exc, system.msg)
        ELSE IF StartsWith(translation.val, "unknown_")
        THEN Unknown(translation, system,
                     _track_unknown_code([counted EXCEPT !.stats.unknown_encountered = @ + 1],
                                         code.v, context, now))
        ELSE Return2(counted, system.self,
                     [code |-> code,
                      translation |-> translation.val,
                      system |-> system.val,
                      status |-> "known"])
      Translated(translation) ==
        IF translation.raised
        THEN Raise2(counted, translation.self, translation.exc, translation.msg)
        ELSE Located(translation, get_system_for_code(translation.self, code))
  IN Translated(translate_code(discovery, code))

\* the fallback loop of propose_code_for_concept: the first code of
\* range(start, min(start + 1000, end)) that is not registered; None when the
\* loop finds none
FirstUnusedCode(used_codes, start, end) ==
  LET stop == (IF start + 1000 < end THEN start + 1000 ELSE end) - 1
  IN IF \E c \in start..stop : c \notin used_codes
     THEN PyInt(CHOOSE c \in start..stop :
                  c \notin used_codes /\ \A u \in start..(c - 1) : u \in used_codes)
     ELSE PyNone

\* propose_code_for_concept that applies the proposal: the suggested code is
\* written into the code registry
ProposeIntoRegistry(self, discovery, concept, name, size, now) ==
  LET Applied(suggested) ==
        IF suggested.raised
        THEN Raise2(self, suggested.self, suggested.exc, suggested.msg)
        ELSE IF "error" \in DOMAIN suggested.val
        THEN Return2(self, suggested.self,
                     [status |-> "error", error |-> suggested.val.error])
        ELSE IF ~Truthy(suggested.val.suggested_start_code)
        THEN Return2(self, suggested.self,
                     [status |-> "error", error |-> "No available codes in suggested range"])
        ELSE Return2([self EXCEPT !.stats.proposals_created = @ + 1],
                     [suggested.self EXCEPT
                        !._code_registry =
                           DictSet(@, suggested.val.suggested_start_code.v,
                                   [name |-> StrOf(name),
                                    enum_class_name |-> "Proposed",
                                    system |-> suggested.val.suggested_system])],
                     [status |-> "proposed",
                      code |-> suggested.val.suggested_start_code.v,
                      name |-> name,
                      system |-> suggested.val.suggested_system,
                      rationale |-> suggested.val.rationale,
                      proposal_id |-> suggested.val.suggested_start_code.v])
  IN Applied(suggest_code_allocation(discovery, concept, size))

\* propose_code_for_concept(concept, name, size) at time now
propose_code_for_concept(self, discovery, concept, name, size, now) ==
  LET Proposed(suggested, suggestion, suggested_code) ==
        IF Truthy(suggested_code)
        THEN Return2(
               [self EXCEPT
                  !.proposals = DictSet(@, suggested_code.v,
                                  [code |-> suggested_code.v,
                                   name |-> name,
                                   system |-> suggestion.suggested_system,
                                   concept |-> concept,
                                   proposed_at |-> now,
                                   status |-> "pending"]),
                  !.stats.proposals_created = @ + 1],
               suggested.self,
               [status |-> "proposed",
                code |-> suggested_code.v,
                name |-> name,
                system |-> suggestion.suggested_system,
                rationale |-> suggestion.rationale,
                proposal_id |-> suggested_code.v])
        ELSE Return2(self, suggested.self,
                     [status |-> "error", error |-> "No available codes in suggested range"])
      Suggested(suggested) ==
        IF suggested.raised
        THEN Raise2(self, suggested.self, suggested.exc, suggested.msg)
        ELSE IF "error" \in DOMAIN suggested.val
        THEN Return2(self, suggested.self,
                     [status |-> "error", error |-> suggested.val.error])
        ELSE Proposed(suggested, suggested.val,
               IF Truthy(suggested.val.suggested_start_code)
               THEN suggested.val.suggested_start_code
               ELSE FirstUnusedCode({code \in DOMAIN discovery._code_registry.entry :
                                       suggested.val.range_start <= code
                                         /\ code <= suggested.val.range_end},
                                    suggested.val.range_start, suggested.val.range_end))
  IN Suggested(suggest_code_allocation(discovery, concept, size))

\* sorted(records, key=count, reverse=True)[:20] as a sequence of codes: by
\* descending count, records of equal count in dict order (the sort is stable)
TopUnknown(unknown_codes) ==
  LET n == Len(unknown_codes.order)
      count(i) == unknown_codes.entry[unknown_codes.order[i]].count
      Before(i, j) == count(i) > count(j) \/ (count(i) = count(j) /\ i < j)
      rank(i) == Cardinality({j \in 1..n : Before(j, i)}) + 1
      sorted == [r \in 1..n |-> unknown_codes.order[CHOOSE i \in 1..n : rank(i) = r]]
  IN SubSeq(sorted, 1, IF n < 20 THEN n ELSE 20)

RECURSIVE SystemsOfCodes(_, _, _)
\* get_system_for_code called for codes[i], codes[i+1], ... in turn: the
\* systems found so far, and the translator with its system cache filled
SystemsOfCodes(discovery, codes, found) ==
  LET Next1(system) == SystemsOfCodes(system.self, codes, Append(found, system.val))
  IN IF Len(found) = Len(codes) THEN Return(discovery, found)
     ELSE Next1(get_system_for_code(discovery, PyInt(codes[Len(found) + 1])))

\* get_unknown_codes_report()
get_unknown_codes_report(self, discovery) ==
  LET Report(top, systems) ==
        Return2(self, systems.self,
                [total_unknown |-> Len(self.unknown_codes.order),
                 unknown_codes |->
                   [i \in 1..Len(top) |->
                      [code |-> self.unknown_codes.entry[top[i]].code,
                       count |-> self.unknown_codes.entry[top[i]].count,
                       first_seen |-> IsoFormat(self.unknown_codes.entry[top[i]].first_seen),
                       last_seen |-> IsoFormat(self.unknown_codes.entry[top[i]].last_seen),
                       system |-> systems.val[i]]]])
      Sorted(top) == Report(top, SystemsOfCodes(discovery, top, <<>>))
  IN Sorted(TopUnknown(self.unknown_codes))

\* the pending proposals without the one stored last
PendingButNewest(self) ==
  LET pending == SelectSeq(self.proposals.order,
                           LAMBDA c : self.proposals.entry[c].status = "pending")
  IN [i \in 1..(Len(pending) - 1) |-> self.proposals.entry[pending[i]]]

\* the proposals whose status is 'pending', in dict order
PendingProposals(self) ==
  LET pending == SelectSeq(self.proposals.order,
                           LAMBDA c : self.proposals.entry[c].status = "pending")
  IN [i \in 1..Len(pending) |-> self.proposals.entry[pending[i]]]

\* get_proposals_report()
get_proposals_report(self, discovery) ==
  LET Report(pending) ==
        Return2(self, discovery,
                [total_proposals |-> Len(self.proposals.order),
                 pending_proposals |->
                   [i \in 1..Len(pending) |->
                      [code |-> pending[i].code,
                       name |-> pending[i].name,
                       system |-> pending[i].system,
                       concept |-> pending[i].concept,
                       proposed_at |-> IsoFormat(pending[i].proposed_at),
                       status |-> pending[i].status]]])
  IN Report(PendingProposals(self))

\* get_statistics() of the service
service_get_statistics(self, discovery) ==
  Return2(self, discovery,
          [service_stats |-> self.stats,
           discovery_stats |-> get_statistics(discovery).val,
           unknown_codes |-> Len(self.unknown_codes.order),
           pending_proposals |-> Len(PendingProposals(self))])

RECURSIVE ReplaceChar(_, _, _)
\* s.replace(a, b) for one-character a and b
ReplaceChar(s, a, b) ==
  IF Len(s) = 0 THEN ""
  ELSE IF Len(s) = 1 THEN (IF s = a THEN b ELSE s)
  ELSE ReplaceChar(SubSeq(s, 1, Len(s) \div 2), a, b)
         \o ReplaceChar(SubSeq(s, Len(s) \div 2 + 1, Len(s)), a, b)

IsLetter(c) == c \in DOMAIN LowerOf \/ c \in DOMAIN UpperOf

RECURSIVE TitleFrom(_, _)
\* str.title() from position i on: a letter that follows a non-letter is
\* upper-cased, every other letter lower-cased
TitleFrom(s, i) ==
  IF i > Len(s) THEN ""
  ELSE (IF i > 1 /\ IsLetter(CharAt(s, i - 1)) THEN LowerChar(CharAt(s, i))
        ELSE UpperChar(CharAt(s, i))) \o TitleFrom(s, i + 1)

Title(s) == TitleFrom(s, 1)

RECURSIVE JoinLines(_, _)
\* '\n'.join(lines[i:])
JoinLines(lines, i) ==
  IF i > Len(lines) THEN ""
  ELSE IF i = Len(lines) THEN lines[i]
  ELSE lines[i] \o "\n" \o JoinLines(lines, i + 1)

RECURSIVE ExportSystems(_, _, _)
\* the loop 'for system, proposals in by_system.items()' from group i on
ExportSystems(pending, systems, i) ==
  IF i > Len(systems) THEN <<>>
  ELSE LET mine == {k \in 1..Len(pending) : pending[k].system = systems[i]}
           sorted == SortedCodes({pending[k].code : k \in mine})
           proposal(c) == pending[CHOOSE k \in mine : pending[k].code = c]
           class_name == "Proposed" \o RemoveChar(Title(systems[i]), "_") \o "Codes"
       IN << "class " \o class_name \o "(IntEnum):",
             "    \"\"\"Proposed codes for " \o systems[i] \o " system\"\"\"",
             "" >>
          \o [j \in 1..Len(sorted) |->
                "    " \o ReplaceChar(ReplaceChar(Upper(proposal(sorted[j]).name.v), "-", "_"),
                                      " ", "_")
                  \o " = " \o ToString(sorted[j]) \o "  # " \o proposal(sorted[j]).concept.v]
          \o <<"">>
          \o ExportSystems(pending, systems, i + 1)

\* export_proposals_for_implementation() at time now
export_proposals_for_implementation(self, discovery, now) ==
  LET Grouped(pending, firsts) ==
        Return2(self, discovery,
          JoinLines(<< "# Proposed Integer Codes",
                       "# Generated: " \o IsoFormat(now),
                       "# Add these to your integer system after review",
                       "",
                       "from enum import IntEnum",
                       "" >>
                    \o ExportSystems(pending,
                                     [i \in 1..Len(firsts) |-> pending[firsts[i]].system], 1),
                    1))
      \* position in the export: the proposal's group, then its code
      Before(pending, firsts, j, k) ==
        LET group(i) == CHOOSE g \in 1..Len(firsts) :
                          pending[firsts[g]].system = pending[i].system
        IN group(j) < group(k) \/ (group(j) = group(k) /\ pending[j].code < pending[k].code)
      Failing(pending, firsts, bad) ==
        Raise2(self, discovery, "AttributeError",
               NoAttributeMsg(pending[CHOOSE k \in bad :
                                        \A j \in bad \ {k} : Before(pending, firsts, k, j)].name,
                              "upper"))
      Ordered(pending, firsts) ==
        IF \E k \in 1..Len(pending) : pending[k].name.t # "str"
        THEN Failing(pending, firsts, {k \in 1..Len(pending) : pending[k].name.t # "str"})
        ELSE Grouped(pending, firsts)
      Export(pending) ==
        IF Len(pending) = 0 THEN Return2(self, discovery, "# No pending proposals")
        ELSE Ordered(pending,
               SelectSeq([k \in 1..Len(pending) |-> k],
                         LAMBDA k : \A j \in 1..(k - 1) :
                                      pending[j].system # pending[k].system))
  IN Export(PendingProposals(self))

\* The cache file ../.unknown_codes_cache.json is absent, holds the JSON
\* object written by a completed save, or holds a partial write
AbsentFile == [state |-> "absent"]

CorruptFile == [state |-> "corrupt"]

JsonFile(data) == [state |-> "json", data |-> data]

\* s[-k:]
LastItems(s, k) == IF Len(s) <= k THEN s ELSE SubSeq(s, Len(s) - k + 1, Len(s))

\* _load_unknown_codes(): every exception is caught and printed
_load_unknown_codes(self, cache_file, readable) ==
  IF cache_file.state # "json" \/ ~readable THEN self
  ELSE LET data == cache_file.data
           codes == [i \in 1..Len(data.order) |-> IntOfStr(data.order[i])]
       IN [self EXCEPT !.unknown_codes =
             [order |-> SelectSeq(@.order, LAMBDA c : \A i \in 1..Len(codes) : codes[i] # c)
                          \o codes,
              entry |-> [c \in {codes[i] : i \in 1..Len(codes)} |->
                           LET record_data == data.entry[ToString(c)]
                           IN [code |-> c,
                               first_seen |-> record_data.first_seen,
                               last_seen |-> record_data.last_seen,
                               count |-> record_data.count,
                               contexts |-> record_data.contexts]] @@ @.entry]]

\* the JSON object with the oldest 10 contexts of every record
OldestContextsJson(self) ==
  [order |-> [i \in 1..Len(self.unknown_codes.order) |->
                ToString(self.unknown_codes.order[i])],
   entry |-> [k \in {ToString(c) : c \in DOMAIN self.unknown_codes.entry} |->
                LET record == self.unknown_codes.entry[IntOfStr(k)]
                IN [first_seen |-> record.first_seen,
                    last_seen |-> record.last_seen,
                    count |-> record.count,
                    contexts |-> IF Len(record.contexts) <= 10 THEN record.contexts
                                 ELSE SubSeq(record.contexts, 1, 10)]]]

\* The JSON object save_unknown_codes() builds
UnknownCodesJson(self) ==
  [order |-> [i \in 1..Len(self.unknown_codes.order) |->
                ToString(self.unknown_codes.order[i])],
   entry |-> [k \in {ToString(c) : c \in DOMAIN self.unknown_codes.entry} |->
                LET record == self.unknown_codes.entry[IntOfStr(k)]
                IN [first_seen |-> record.first_seen,
                    last_seen |-> record.last_seen,
                    count |-> record.count,
                    contexts |-> LastItems(record.contexts, 10)]]]

\* save_unknown_codes(): the file after the call.  open() can fail, leaving
\* the file as it was; the write can fail after open() truncated the file;
\* every exception is caught and printed
save_unknown_codes(self, cache_file, outcome) ==
  CASE outcome = "ok" -> JsonFile(UnknownCodesJson(self))
    [] outcome = "open_fails" -> cache_file
    [] OTHER -> CorruptFile

\* RealSelfSustainingService.__init__
RealSelfSustainingService(cache_file, readable) ==
  _load_unknown_codes(
    [unknown_codes |-> EmptyOrderedDict,
     proposals |-> EmptyOrderedDict,
     stats |-> [translations |-> 0, unknown_encountered |-> 0, proposals_created |-> 0]],
    cache_file, readable)

\* SimpleMessageHandler.handle_message(message) at time now, on the
\* handler's service (self)
handle_message(self, discovery, message, now) ==
  LET Exported(code) ==
        IF code.raised THEN code
        ELSE Return2(code.self, code.discovery, [status |-> "success", code |-> code.val])
      Caught(msg_type, handled) ==
        IF handled.raised
        THEN Return2(handled.self, handled.discovery,
                     [status |-> "error",
                      error |-> handled.msg,
                      message_type |-> msg_type])
        ELSE handled
      Dispatch(msg_type) ==
        Caught(msg_type,
          IF IsStr(msg_type, "TRANSLATE")
          THEN translate_with_learning(self, discovery, DictGet(message, "code"),
                                       DictGet(message, "context"), now)
          ELSE IF IsStr(msg_type, "PROPOSE_CODE")
          THEN propose_code_for_concept(self, discovery,
                                        DictGetOr(message, "concept", PyStr("")),
                                        DictGetOr(message, "name", PyStr("")),
                                        DictGetOr(message, "size", PyInt(1)), now)
          ELSE IF IsStr(msg_type, "GET_UNKNOWN_CODES")
          THEN get_unknown_codes_report(self, discovery)
          ELSE IF IsStr(msg_type, "GET_PROPOSALS")
          THEN get_proposals_report(self, discovery)
          ELSE IF IsStr(msg_type, "EXPORT_PROPOSALS")
          THEN Exported(export_proposals_for_implementation(self, discovery, now))
          ELSE IF IsStr(msg_type, "STATS")
          THEN service_get_statistics(self, discovery)
          ELSE Return2(self, discovery,
                 [status |-> "error",
                  error |-> "Unknown message type: " \o StrOf(msg_type),
                  valid_types |-> <<"TRANSLATE", "PROPOSE_CODE", "GET_UNKNOWN_CODES",
                                    "GET_PROPOSALS", "EXPORT_PROPOSALS", "STATS">>]))
  IN IF message.t # "dict"
     THEN Raise2(self, discovery, "AttributeError", NoAttributeMsg(message, "get"))
     ELSE Dispatch(DictGetOr(message, "type", PyStr("TRANSLATE")))

\* ---------------------------------------------------------------------------
\* transports/pulsar/pulsar_consumer.py: the Container Consumer
\* ---------------------------------------------------------------------------

\* Message bodies of the exploration: JSON documents (an object, a number,
\* null), text that is no JSON document, and bytes that are no UTF-8
JsonDocuments == {"{\"action\": \"demo\"}", "5", "null"}

NotJson == {"", "{action"}

NotUtf8 == {"\\xff"}

\* json.loads(msg.data().decode('utf-8')): the exception it ends with, or
\* "" when it returns the parsed document
JsonLoads(body) ==
  IF body \in NotUtf8 THEN "UnicodeDecodeError"
  ELSE IF body \in JsonDocuments THEN ""
  ELSE "JSONDecodeError"

\* A ContainerConsumerConfig: the three required names and additional_topics,
\* None by default
ContainerConsumerConfig(tenant, namespace, container_name, additional_topics) ==
  [tenant |-> tenant, namespace |-> namespace, container_name |-> container_name,
   additional_topics |-> additional_topics]

\* a consumer that puts every additional topic under its tenant and namespace
QualifyEveryTopic(config) ==
  LET prefix == config.tenant \o "://" \o config.namespace \o "/"
      more == IF config.additional_topics.t = "list" THEN config.additional_topics.v ELSE <<>>
  IN [self |-> [config |-> config,
                client |-> "None", consumer |-> "None", running |-> FALSE,
                topics |-> <<prefix \o config.container_name>>
                             \o [i \in 1..Len(more) |-> prefix \o more[i]],
                stats |-> [total_processed |-> 0, errors |-> 0]],
      frame |-> [pc |-> "idle", processed |-> 0, max_messages |-> 0, msg |-> 0,
                 stop_called |-> FALSE, received_after_stop |-> 0],
      broker |-> <<>>]

\* ContainerConsumer(config, message_handler): the object's fields, the
\* position and locals of start_processing, and what the broker has seen of
\* every message it delivered to this consumer
ContainerConsumer(config) ==
  LET RECURSIVE Append_(_, _)
      \* the for loop from the i-th additional topic on
      Append_(topics, i) ==
        IF i > Len(config.additional_topics.v) THEN topics
        ELSE LET topic == config.additional_topics.v[i]
                 full_topic == IF ~Contains(topic, "://")
                               THEN config.tenant \o "://" \o config.namespace \o "/" \o topic
                               ELSE topic
             IN Append_(Append(topics, full_topic), i + 1)
      own == <<config.tenant \o "://" \o config.namespace \o "/" \o config.container_name>>
  IN [self |-> [config |-> config,
                client |-> "None", consumer |-> "None", running |-> FALSE,
                topics |-> IF Truthy(config.additional_topics) THEN Append_(own, 1) ELSE own,
                stats |-> [total_processed |-> 0, errors |-> 0]],
      frame |-> [pc |-> "idle", processed |-> 0, max_messages |-> 0, msg |-> 0,
                 stop_called |-> FALSE, received_after_stop |-> 0],
      broker |-> <<>>]

\* connect(): the client and the subscription are made once
connect(self) ==
  IF self.client = "None"
  THEN [self EXCEPT !.client = "pulsar.Client", !.consumer = "client.subscribe"]
  ELSE self

\* The break of the loop, or its end when running is false: the finally
\* clause clears running and start_processing returns
Finally(c) ==
  [c EXCEPT !.self.running = FALSE, !.frame.pc = "returned", !.frame.msg = 0]

\* the except clauses that neither tell the broker nor count the error
SwallowError(c) ==
  [c EXCEPT !.frame.pc = "receive", !.frame.msg = 0]

\* consumer.negative_acknowledge(msg); stats['errors'] += 1, the body of both
\* except clauses of the message; the loop goes on
NegativeAcknowledge(c) ==
  [c EXCEPT !.broker[c.frame.msg].nacks = @ + 1,
            !.self.stats.errors = @ + 1,
            !.frame.pc = "receive",
            !.frame.msg = 0]

\* consumer.acknowledge(msg) and the counting that follows it, with the
\* break when max_messages is reached
Acknowledged(c) ==
  LET counted == [c EXCEPT !.broker[c.frame.msg].acks = @ + 1,
                           !.broker[c.frame.msg].acked_after_return =
                              c.broker[c.frame.msg].returned,
                           !.self.stats.total_processed = @ + 1,
                           !.frame.processed = @ + 1,
                           !.frame.pc = "receive",
                           !.frame.msg = 0]
  IN IF counted.frame.max_messages # 0
          /\ counted.frame.processed >= counted.frame.max_messages
     THEN Finally(counted)
     ELSE counted

\* ---------------------------------------------------------------------------
\* transports/pulsar/pulsar_connection_manager.py: the Connection Manager
\* ---------------------------------------------------------------------------

\* PulsarConnectionManager(config, metrics): no client, the lock free (0, or
\* the thread that holds it), the active-connections gauge of its metrics,
\* and for the exploration the number of pulsar.Client objects constructed,
\* the clients close() has closed and the number of close() calls
PulsarConnectionManager ==
  [_client |-> "None", _lock |-> 0, _health_status |-> "unknown",
   _last_error |-> "None", active_connections |-> 0,
   clients |-> 0, torn_down |-> {}, closes |-> 0]

\* a _create_client() that counts the connection before it fails
CountedBeforeFailing(self) ==
  [self |-> [self EXCEPT !.active_connections = @ + 1],
   raised |-> TRUE, val |-> "None", exc |-> "TypeError"]

\* _create_client(): its first statement is datetime.time() on the class
\* datetime.datetime, which raises TypeError (unbound method needs an
\* argument) outside the try; nothing else of the method runs
_create_client(self) ==
  [self |-> self, raised |-> TRUE, val |-> "None", exc |-> "TypeError"]

\* The body of 'with self._lock' in get_client(), entered with the lock held
get_client(self) ==
  LET created == _create_client(self)
  IN IF self._client # "None"
     THEN [self |-> self, raised |-> FALSE, val |-> self._client, exc |-> ""]
     ELSE IF created.raised THEN created
     ELSE [created EXCEPT !.self._client = created.val]

\* close(): with a client, the client is closed and forgotten and the gauge
\* decremented; without one nothing happens. The lock is not taken.
close(self) ==
  IF self._client # "None"
  THEN [self EXCEPT !.torn_down = @ \cup {self._client},
                    !._client = "None",
                    !.active_connections = @ - 1]
  ELSE self

\* ---------------------------------------------------------------------------
\* transports/pulsar/pulsar_manager.py and uis.py: the Broker Manager and the
\* Universal System
\* ---------------------------------------------------------------------------

\* Metrics(port): the counters and gauges the calls below write. A labelled
\* counter is a function from the label values written so far to counts.
Metrics ==
  [messages_sent |-> << >>, errors |-> << >>, active_producers |-> << >>,
   code_translations |-> << >>]

\* counter.labels(...).inc()
Inc(counter, labels) ==
  IF labels \in DOMAIN counter THEN [counter EXCEPT ![labels] = @ + 1]
  ELSE (labels :> 1) @@ counter

\* the value of a labelled counter, 0 when the labels were never written
Count(counter, labels) == IF labels \in DOMAIN counter THEN counter[labels] ELSE 0

RECURSIVE Total(_, _)
\* the sum of a labelled counter over a set of its labels
Total(counter, labels) ==
  IF labels = {} THEN 0
  ELSE LET l == CHOOSE x \in labels : TRUE
       IN counter[l] + Total(counter, labels \ {l})

\* UniversalSystem(): not configured, no manager, no handler, not running;
\* sends counts the send() calls finished and last is the outcome of the
\* last call made on the system
UniversalSystem ==
  [_configured |-> FALSE, _connection |-> "None", _manager |-> "None",
   _handlers |-> << >>, _running |-> FALSE, metrics |-> Metrics,
   last |-> [n |-> 0, op |-> "__init__", raised |-> FALSE, exc |-> "", val |-> "None",
             topic |-> "", broker_up |-> FALSE]]

\* PulsarManager._format_topic(topic), which pulsar_manager.py calls and does
\* not define: the fully qualified name of PulsarConfig.get_topic_name for
\* the default tenant and namespace
_format_topic(topic) == "persistent://default/default/" \o topic

\* PulsarManager(connection, config, metrics): no producer cached
PulsarManager(connection) == [connection |-> connection, _producers |-> << >>]

\* get_producer(topic) of a manager with the metrics registry; broker_up
\* tells whether the broker would create the producer when asked
get_producer(manager, metrics, topic, broker_up) ==
  LET formatted_topic == _format_topic(topic)
      client == get_client(manager.connection)
      Failed(exc) ==
        [manager |-> [manager EXCEPT !.connection = client.self],
         metrics |-> [metrics EXCEPT
                        !.errors = Inc(@, <<"producer_creation", "get_producer">>)],
         raised |-> TRUE, exc |-> exc, val |-> "None"]
  IN IF formatted_topic \in DOMAIN manager._producers
     THEN [manager |-> manager, metrics |-> metrics, raised |-> FALSE, exc |-> "",
           val |-> manager._producers[formatted_topic]]
     ELSE IF client.raised THEN Failed(client.exc)
     ELSE IF ~broker_up THEN Failed("pulsar.ConnectError")
     ELSE [manager |-> [manager EXCEPT
                          !.connection = client.self,
                          !._producers =
                             (formatted_topic :> "producer of " \o formatted_topic) @@ @],
           metrics |-> [metrics EXCEPT !.active_producers = Inc(@, topic)],
           raised |-> FALSE, exc |-> "",
           val |-> "producer of " \o formatted_topic]

\* get_consumer(topics, subscription): the client, the subscription, or the
\* error metric and the exception
get_consumer(manager, metrics, topics, broker_up) ==
  LET client == get_client(manager.connection)
      Failed(exc) ==
        [manager |-> [manager EXCEPT !.connection = client.self],
         metrics |-> [metrics EXCEPT
                        !.errors = Inc(@, <<"consumer_creation", "get_consumer">>)],
         raised |-> TRUE, exc |-> exc, val |-> "None"]
  IN IF client.raised THEN Failed(client.exc)
     ELSE IF ~broker_up THEN Failed("pulsar.ConnectError")
     ELSE [manager |-> [manager EXCEPT !.connection = client.self],
           metrics |-> metrics, raised |-> FALSE, exc |-> "",
           val |-> "consumer of " \o _format_topic(topics[1])]

\* configure(): Config.from_env, which uis.py calls and does not define,
\* gives the configuration or raises (no service URL outside development
\* mode); the Connection Manager and the Broker Manager are made
configure(self, config_ok) ==
  IF config_ok
  THEN [self |-> [self EXCEPT !._connection = "PulsarConnectionManager",
                              !._manager = PulsarManager(PulsarConnectionManager),
                              !._configured = TRUE],
        raised |-> FALSE, exc |-> ""]
  ELSE [self |-> [self EXCEPT !.metrics.errors = Inc(@, <<"configuration", "configure">>)],
        raised |-> TRUE, exc |-> "ValueError"]

\* What a finished call leaves in last
Finished(self, op, raised, exc, val, topic, broker_up) ==
  [self EXCEPT !.last = [n |-> @.n + 1, op |-> op, raised |-> raised, exc |-> exc,
                         val |-> val, topic |-> topic, broker_up |-> broker_up]]

\* send(code, data, topic). env tells what the surroundings do when asked:
\* whether the configuration can be built, what _get_topic_for_code (called
\* and not defined in uis.py) answers, whether the broker creates producers
\* and whether the publish succeeds
send(self, code, topic, env) ==
  LET configured == IF self._configured THEN [self |-> self, raised |-> FALSE, exc |-> ""]
                    ELSE configure(self, env.config_ok)
      Except(s, label, exc) ==
        Finished([s EXCEPT
                    !.metrics.messages_sent = Inc(@, <<StrOf(code), label, "failed">>),
                    !.metrics.errors = Inc(@, <<"send", "send">>)],
                 "send", TRUE, exc, "None", label, env.broker_up)
      Published(s, resolved, producer) ==
        IF producer.raised
        THEN Except([s EXCEPT !._manager = producer.manager, !.metrics = producer.metrics],
                    resolved, producer.exc)
        ELSE IF ~env.publish_ok
        THEN Except([s EXCEPT !._manager = producer.manager, !.metrics = producer.metrics],
                    resolved, "pulsar.Timeout")
        ELSE Finished([s EXCEPT
                         !._manager = producer.manager,
                         !.metrics = [producer.metrics EXCEPT
                                        !.messages_sent =
                                           Inc(@, <<StrOf(code), resolved, "success">>)]],
                      "send", FALSE, "", "None", resolved, env.broker_up)
      Translated(s, resolved, code_name, system) ==
        IF code_name.raised THEN Except(s, resolved, code_name.exc)
        ELSE IF system.raised THEN Except(s, resolved, system.exc)
        ELSE Published([s EXCEPT !.metrics.code_translations =
                                    Inc(@, <<StrOf(code), system.val>>)],
                       resolved,
                       get_producer(s._manager,
                                    [s.metrics EXCEPT !.code_translations =
                                       Inc(@, <<StrOf(code), system.val>>)],
                                    resolved, env.broker_up))
      Resolved(s, resolved) ==
        Translated(s, resolved,
                   translate_code(StreamlinedDiscoveryTranslator, code),
                   get_system_for_code(StreamlinedDiscoveryTranslator, code))
  IN IF configured.raised
     THEN Finished(configured.self, "send", TRUE, configured.exc, "None", "", env.broker_up)
     ELSE IF topic = "None" /\ env.resolution = "AttributeError"
     THEN Except(configured.self, "unknown", "AttributeError")
     ELSE Resolved(configured.self, IF topic = "None" THEN env.resolution ELSE topic)

\* _consume_topic(topic): the subscription name is built from the
\* configuration and the consumer is asked for before the loop; when that
\* raises, so does the task, and the loop is never entered. Otherwise the
\* task is in its loop with the consumer.
_consume_topic(self, topic, broker_up) ==
  LET consumer == get_consumer(self._manager, self.metrics, <<topic>>, broker_up)
  IN IF ~self._configured
     THEN Finished(self, "_consume_topic", TRUE, "AttributeError", "None", topic, broker_up)
     ELSE IF consumer.raised
     THEN Finished([self EXCEPT !._manager = consumer.manager,
                                !.metrics = consumer.metrics],
                   "_consume_topic", TRUE, consumer.exc, "None", topic, broker_up)
     ELSE Finished([self EXCEPT !._manager = consumer.manager,
                                !.metrics = consumer.metrics],
                   "_consume_topic", FALSE, "", consumer.val, topic, broker_up)

\* ---------------------------------------------------------------------------
\* transports/pulsar/pulsar_producer.py: the Container Producer
\* ---------------------------------------------------------------------------

\* json.dumps(x): the JSON document of a Python value
JsonDumps(x) ==
  LET RECURSIVE Document(_)
      Document(y) ==
        IF y.t = "dict"
        THEN [j |-> "object", v |-> [k \in DOMAIN y.v |-> Document(y.v[k])]]
        ELSE IF y.t = "list"
        THEN [j |-> "array", v |-> [i \in 1..Len(y.v) |-> Document(y.v[i])]]
        ELSE IF y.t = "str" THEN [j |-> "string", v |-> y.v]
        ELSE IF y.t = "NoneType" THEN [j |-> "null"]
        ELSE [j |-> "number", v |-> y.v]
  IN Document(x)

\* ContainerProducer(config) with the two options of the configuration that
\* send_message reads; not connected
ContainerProducer(auto_add_timestamp, auto_add_message_id) ==
  [config |-> [auto_add_timestamp |-> auto_add_timestamp,
               auto_add_message_id |-> auto_add_message_id],
   client |-> "None", producer |-> "None"]

\* send_message that stamps the message whatever keys it has
StampAlways(self, message_data, now, uuid4) ==
  LET stamped == (IF self.config.auto_add_timestamp
                  THEN ("timestamp" :> PyInt(now * 1000)) ELSE << >>)
                 @@ (IF self.config.auto_add_message_id
                     THEN ("message_id" :> PyStr(uuid4)) ELSE << >>)
                 @@ (IF message_data.t = "dict" THEN message_data.v ELSE << >>)
  IN [self |-> [self EXCEPT !.client = "pulsar.Client", !.producer = "create_producer"],
      raised |-> FALSE, exc |-> "", message_data |-> PyDict(stamped),
      payload |-> JsonDumps(PyDict(stamped))]

\* send_message(message_data) at time now, uuid4 being the identifier that
\* uuid.uuid4() gives: the producer after the call, the caller's object
\* after the call, and the payload given to producer.send
send_message(self, message_data, now, uuid4) ==
  LET connected == [self EXCEPT !.client = "pulsar.Client", !.producer = "create_producer"]
      \* 'key' not in message_data
      Absent(data, key) ==
        IF data.t = "dict" THEN key \notin DOMAIN data.v
        ELSE IF data.t = "list"
        THEN \A i \in 1..Len(data.v) : data.v[i] # PyStr(key)
        ELSE data.t = "str" /\ ~Contains(data.v, key)
      \* the test raises TypeError on an object that is no container
      Container(data) == data.t \in {"dict", "list", "str"}
      Failed == [self |-> connected, raised |-> TRUE, exc |-> "TypeError",
                 message_data |-> message_data, payload |-> "None"]
      Sent(data) == [self |-> connected, raised |-> FALSE, exc |-> "",
                     message_data |-> data, payload |-> JsonDumps(data)]
      \* the second if statement, on the object the first one left
      MessageId(data) ==
        IF ~self.config.auto_add_message_id THEN Sent(data)
        ELSE IF ~Container(data) THEN Failed
        ELSE IF ~Absent(data, "message_id") THEN Sent(data)
        ELSE IF data.t # "dict" THEN Failed
        ELSE Sent(PyDict(("message_id" :> PyStr(uuid4)) @@ data.v))
  IN IF ~self.config.auto_add_timestamp THEN MessageId(message_data)
     ELSE IF ~Container(message_data) THEN Failed
     ELSE IF ~Absent(message_data, "timestamp") THEN MessageId(message_data)
     ELSE IF message_data.t # "dict" THEN Failed
     ELSE MessageId(PyDict(("timestamp" :> PyInt(now * 1000)) @@ message_data.v))


\* ---------------------------------------------------------------------------
\* core/universal_integer_system.py: CodeMigration
\* ---------------------------------------------------------------------------

\* CodeMigration._get_ranges(codes), codes a list of integers
_get_ranges(codes) ==
  LET RECURSIVE Insert(_, _), Sort(_, _), Loop(_, _, _, _, _)
      \* x put into the ascending list s, after the elements equal to it
      Insert(s, x) ==
        IF s = <<>> THEN <<x>>
        ELSE IF x < Head(s) THEN <<x>> \o s
        ELSE <<Head(s)>> \o Insert(Tail(s), x)
      \* sorted(codes)
      Sort(s, i) == IF i > Len(s) THEN <<>> ELSE Insert(Sort(s, i + 1), s[i])
      sorted_codes == Sort(codes, 1)
      \* the for loop from the i-th sorted code on
      Loop(ranges, start, end, s, i) ==
        IF i > Len(s) THEN Append(ranges, <<start, end>>)
        ELSE IF s[i] = end + 1 THEN Loop(ranges, start, s[i], s, i + 1)
        ELSE Loop(Append(ranges, <<start, end>>), s[i], s[i], s, i + 1)
  IN IF codes = <<>> THEN <<>>
     ELSE Loop(<<>>, sorted_codes[1], sorted_codes[1], sorted_codes, 2)
\* ---------------------------------------------------------------------------
\* State: the global translator of discovery.py, the Learning Service of the
\* message handler, the service's cache file, the wall clock, and the last
\* call made on the program with its outcome
\* ---------------------------------------------------------------------------
VARIABLES streamlined_translator, service, cache_file, clock, call, ret,
          container_consumer, connection_manager, get_client_calls,
          universal_system, container_producer

\* Threads that call get_client() on the one Connection Manager
Callers == {1, 2, 3}

\* the core: translator, Learning Service, cache file, clock, last call
core == <<streamlined_translator, service, cache_file, clock, call, ret>>

\* the transport layer
transport == <<container_consumer, connection_manager, get_client_calls,
              universal_system, container_producer>>

vars == <<core, transport>>

\* Bounds of the exploration
MaxTranslations == 2

MaxSightings == 2

MaxClock == 1

\* The call being made: its operation and arguments, and whether it repeats
\* the call made just before it
Call(op, args) == [op |-> op, args |-> args, repeat |-> call.op = op /\ call.args = args]

\* What the caller sees of a finished call
Outcome(r) ==
  IF r.raised THEN [raised |-> TRUE, exc |-> r.exc, msg |-> r.msg]
  ELSE [raised |-> FALSE, val |-> r.val]

Init ==
  /\ streamlined_translator = StreamlinedDiscoveryTranslator
  /\ cache_file = AbsentFile
  /\ service = RealSelfSustainingService(AbsentFile, TRUE)
  /\ clock = 0
  /\ call = [op |-> "__init__", args |-> <<>>, repeat |-> FALSE]
  /\ ret = [raised |-> FALSE, val |-> PyNone]
  /\ container_consumer = ContainerConsumer(ContainerConsumerConfig("t", "n", "orders", PyNone))
  /\ connection_manager = PulsarConnectionManager
  /\ universal_system = UniversalSystem
  /\ container_producer = [self |-> ContainerProducer(TRUE, TRUE), sent |-> 0,
                           last |-> [given |-> PyNone, message_data |-> PyNone,
                                     payload |-> "None", raised |-> FALSE, exc |-> ""]]
  /\ get_client_calls = [t \in Callers |-> [pc |-> "idle", n |-> 0, val |-> "None", exc |-> ""]]

\* A call of a translator method: the global translator becomes r.self
EngineCall(op, args, r) ==
  /\ call' = Call(op, args)
  /\ ret' = Outcome(r)
  /\ streamlined_translator' = r.self
  /\ UNCHANGED <<service, cache_file, clock, transport>>

\* A call of a Learning Service method
ServiceCall(op, args, r) ==
  /\ call' = Call(op, args)
  /\ ret' = Outcome(r)
  /\ streamlined_translator' = r.discovery
  /\ service' = r.self
  /\ UNCHANGED <<cache_file, clock, transport>>

Budget == streamlined_translator._stats.total_translations < MaxTranslations

DetermineSystem(codes) ==
  \E code \in codes :
    EngineCall("_determine_system_from_code", <<code>>,
               _determine_system_from_code(streamlined_translator, code))

TranslateCode(codes) ==
  \E code \in codes :
    /\ Budget
    /\ EngineCall("translate_code", <<code>>, translate_code(streamlined_translator, code))

GetSystemForCode(codes) ==
  \E code \in codes :
    EngineCall("get_system_for_code", <<code>>,
               get_system_for_code(streamlined_translator, code))

FormatCodeWithContext(codes) ==
  \E code \in codes :
    /\ Budget
    /\ EngineCall("format_code_with_context", <<code>>,
                  format_code_with_context(streamlined_translator, code))

GetCodeInfo(codes) ==
  \E code \in codes :
    /\ Budget
    /\ EngineCall("get_code_info", <<code>>, get_code_info(streamlined_translator, code))

FindCodesByName(terms) ==
  \E term \in terms :
    /\ Budget
    /\ EngineCall("find_codes_by_name", <<term>>,
                  find_codes_by_name(streamlined_translator, term))

GetSystemSummary ==
  EngineCall("get_system_summary", <<>>, get_system_summary(streamlined_translator))

GetStatistics ==
  EngineCall("get_statistics", <<>>, get_statistics(streamlined_translator))

SuggestCodeAllocation(concepts, sizes) ==
  \E concept \in concepts, size \in sizes :
    EngineCall("suggest_code_allocation", <<concept, size>>,
               suggest_code_allocation(streamlined_translator, concept, size))

ValidateCodeAddition(codes, names, systems) ==
  \E code \in codes, name \in names, system \in systems :
    EngineCall("validate_code_addition", <<code, name, system>>,
               validate_code_addition(streamlined_translator, code, name, system))

StatusName(codes) ==
  \E code \in codes :
    /\ Budget
    /\ EngineCall("status_name", <<code>>, status_name(streamlined_translator, code))

StatusCode(names) ==
  \E name \in names :
    EngineCall("status_code", <<name>>, status_code(streamlined_translator, name))

HandleRequest(requests) ==
  \E request \in requests :
    /\ Budget
    /\ EngineCall("handle_request", <<request>>,
                  handle_request(streamlined_translator, request))

TranslateWithLearning(codes, contexts) ==
  \E code \in codes, context \in contexts :
    /\ Budget
    /\ code.t = "int" /\ code.v \in DOMAIN service.unknown_codes.entry
         => service.unknown_codes.entry[code.v].count < MaxSightings
    /\ ServiceCall("translate_with_learning", <<code, context>>,
                   translate_with_learning(service, streamlined_translator, code, context,
                                           clock))

ProposeCodeForConcept(concepts, names, sizes) ==
  \E concept \in concepts, name \in names, size \in sizes :
    /\ service.stats.proposals_created < MaxSightings
    /\ ServiceCall("propose_code_for_concept", <<concept, name, size>>,
                   propose_code_for_concept(service, streamlined_translator, concept, name,
                                            size, clock))

GetUnknownCodesReport ==
  ServiceCall("get_unknown_codes_report", <<>>,
              get_unknown_codes_report(service, streamlined_translator))

GetProposalsReport ==
  ServiceCall("get_proposals_report", <<>>,
              get_proposals_report(service, streamlined_translator))

ExportProposals ==
  ServiceCall("export_proposals_for_implementation", <<>>,
              export_proposals_for_implementation(service, streamlined_translator, clock))

ServiceGetStatistics ==
  ServiceCall("service.get_statistics", <<>>,
              service_get_statistics(service, streamlined_translator))

HandleMessage(messages) ==
  \E message \in messages :
    /\ Budget
    /\ service.stats.proposals_created < MaxSightings
    /\ \A c \in DOMAIN service.unknown_codes.entry :
         service.unknown_codes.entry[c].count < MaxSightings
    /\ ServiceCall("handle_message", <<message>>,
                   handle_message(service, streamlined_translator, message, clock))

\* save_unknown_codes(): returns None whatever happens to the file
SaveUnknownCodes ==
  \E outcome \in {"ok", "open_fails", "write_fails"} :
    /\ call' = Call("save_unknown_codes", <<>>)
    /\ ret' = [raised |-> FALSE, val |-> PyNone]
    /\ cache_file' = save_unknown_codes(service, cache_file, outcome)
    /\ UNCHANGED <<streamlined_translator, service, clock, transport>>

\* The process is started again: the module is imported anew and a new
\* service loads the cache file
Restart ==
  \E readable \in BOOLEAN :
    /\ call.op # "__init__"
    /\ call' = [op |-> "__init__", args |-> <<>>, repeat |-> FALSE]
    /\ ret' = [raised |-> FALSE, val |-> PyNone]
    /\ streamlined_translator' = StreamlinedDiscoveryTranslator
    /\ service' = RealSelfSustainingService(cache_file, readable)
    /\ UNCHANGED <<cache_file, clock, transport>>

\* Time passes
Tick ==
  /\ clock < MaxClock
  /\ clock' = clock + 1
  /\ UNCHANGED <<streamlined_translator, service, cache_file, call, ret, transport>>

\* ---------------------------------------------------------------------------
\* The Container Consumer: start_processing step by step
\* ---------------------------------------------------------------------------

\* Bound of the exploration: messages the broker delivers to the consumer
MaxMessages == 3

\* start_processing(max_messages) is invoked: the thread is about to connect
StartProcessing(limits) ==
  \E max_messages \in limits :
    /\ container_consumer.frame.pc \in {"idle", "returned", "raised"}
    /\ container_consumer' =
         [container_consumer EXCEPT
            !.frame = [pc |-> "connect", processed |-> 0,
                       max_messages |-> max_messages, msg |-> 0,
                       stop_called |-> FALSE, received_after_stop |-> 0]]
    /\ UNCHANGED <<core, connection_manager, get_client_calls, universal_system, container_producer>>

\* self.connect(), or the exception of a broker that cannot be reached;
\* then self.running = True and the loop is entered
Connect ==
  \E reachable \in BOOLEAN :
    /\ container_consumer.frame.pc = "connect"
    /\ container_consumer' =
         IF ~reachable /\ container_consumer.self.client = "None"
         THEN [container_consumer EXCEPT !.frame.pc = "raised"]
         ELSE [container_consumer EXCEPT
                 !.self = [connect(@) EXCEPT !.running = TRUE],
                 !.frame.pc = "receive"]
    /\ UNCHANGED <<core, connection_manager, get_client_calls, universal_system, container_producer>>

\* The loop test and consumer.receive(timeout_millis=1000): a message, a
\* pulsar.Timeout, another exception of the broker, or Ctrl-C while waiting
Receive(bodies) ==
  /\ container_consumer.frame.pc = "receive"
  /\ \/ /\ ~container_consumer.self.running
        /\ container_consumer' = Finally(container_consumer)
     \/ /\ container_consumer.self.running
        /\ \/ \E body \in bodies :
                /\ Len(container_consumer.broker) < MaxMessages
                /\ container_consumer' =
                     [container_consumer EXCEPT
                        !.broker = Append(@, [body |-> body, handler_calls |-> 0,
                                              returned |-> FALSE, acks |-> 0, nacks |-> 0,
                                              acked_after_return |-> FALSE]),
                        !.frame.msg = Len(container_consumer.broker) + 1,
                        !.frame.received_after_stop =
                           IF container_consumer.frame.stop_called THEN @ + 1 ELSE @,
                        !.frame.pc = "parse"]
           \/ \E outcome \in {"pulsar.Timeout", "Exception"} :
                container_consumer' = container_consumer
           \/ container_consumer' = Finally(container_consumer)
  /\ UNCHANGED <<core, connection_manager, get_client_calls, universal_system, container_producer>>

\* json.loads(msg.data().decode('utf-8')) and its except clauses
Parse ==
  /\ container_consumer.frame.pc = "parse"
  /\ container_consumer' =
       IF JsonLoads(container_consumer.broker[container_consumer.frame.msg].body) = ""
       THEN [container_consumer EXCEPT !.frame.pc = "message_handler"]
       ELSE NegativeAcknowledge(container_consumer)
  /\ UNCHANGED <<core, connection_manager, get_client_calls, universal_system, container_producer>>

\* self.message_handler(message_data): the handler returns or raises, and
\* it may have called stop() before
MessageHandler ==
  \E raises \in BOOLEAN, stops \in BOOLEAN :
    LET called == [container_consumer EXCEPT
                     !.broker[container_consumer.frame.msg].handler_calls = @ + 1,
                     !.broker[container_consumer.frame.msg].returned = ~raises,
                     !.self.running = @ /\ ~stops,
                     !.frame.stop_called = @ \/ stops]
    IN /\ container_consumer.frame.pc = "message_handler"
       /\ container_consumer' =
            IF raises THEN NegativeAcknowledge(called)
            ELSE [called EXCEPT !.frame.pc = "acknowledge"]
       /\ UNCHANGED <<core, connection_manager, get_client_calls, universal_system, container_producer>>

\* consumer.acknowledge(msg), the counters, the max_messages test
Acknowledge ==
  /\ container_consumer.frame.pc = "acknowledge"
  /\ container_consumer' = Acknowledged(container_consumer)
  /\ UNCHANGED <<core, connection_manager, get_client_calls, universal_system, container_producer>>

\* stop(), called from another thread after start_processing was invoked
Stop ==
  /\ container_consumer.frame.pc \notin {"idle", "returned", "raised"}
  /\ container_consumer.self.running \/ ~container_consumer.frame.stop_called
  /\ container_consumer' = [container_consumer EXCEPT !.self.running = FALSE,
                                                      !.frame.stop_called = TRUE]
  /\ UNCHANGED <<core, connection_manager, get_client_calls, universal_system, container_producer>>

NextConsumer ==
  \/ StartProcessing({0, 2})
  \/ Connect
  \/ Receive({"{\"action\": \"demo\"}", "{action", "\\xff"})
  \/ Parse
  \/ MessageHandler
  \/ Acknowledge
  \/ Stop

SpecConsumer == Init /\ [][NextConsumer]_vars

\* ---------------------------------------------------------------------------
\* The Connection Manager: get_client() called from several threads
\* ---------------------------------------------------------------------------

\* Bound of the exploration: get_client() calls of one thread
MaxCalls == 2

\* A thread calls get_client() and waits for the lock
CallGetClient(t) ==
  /\ get_client_calls[t].pc \in {"idle", "returned", "raised"}
  /\ get_client_calls[t].n < MaxCalls
  /\ get_client_calls' = [get_client_calls EXCEPT
                            ![t] = [pc |-> "with", n |-> @.n + 1, val |-> "None", exc |-> ""]]
  /\ UNCHANGED <<core, container_consumer, connection_manager, universal_system, container_producer>>

\* with self._lock: the thread gets the lock when no thread holds it
AcquireLock(t) ==
  /\ get_client_calls[t].pc = "with"
  /\ connection_manager._lock = 0
  /\ connection_manager' = [connection_manager EXCEPT !._lock = t]
  /\ get_client_calls' = [get_client_calls EXCEPT ![t].pc = "locked"]
  /\ UNCHANGED <<core, container_consumer, universal_system, container_producer>>

\* The body of the with statement, and the release of the lock on the way
\* out, by return or by exception
GetClient(t) ==
  LET r == get_client(connection_manager)
  IN /\ get_client_calls[t].pc = "locked"
     /\ connection_manager' = [r.self EXCEPT !._lock = 0]
     /\ get_client_calls' = [get_client_calls EXCEPT
                               ![t].pc = IF r.raised THEN "raised" ELSE "returned",
                               ![t].val = r.val,
                               ![t].exc = r.exc]
     /\ UNCHANGED <<core, container_consumer, universal_system, container_producer>>

NextConnection ==
  \/ \E t \in Callers : CallGetClient(t)
  \/ \E t \in Callers : AcquireLock(t)
  \/ \E t \in Callers : GetClient(t)

SpecConnection == Init /\ [][NextConnection]_vars

\* close(), called from any thread at any moment
Close ==
  /\ connection_manager.closes < MaxCalls
  /\ connection_manager' = [close(connection_manager) EXCEPT !.closes = @ + 1]
  /\ UNCHANGED <<core, container_consumer, get_client_calls, universal_system,
                 container_producer>>

NextGauge == NextConnection \/ Close

SpecGauge == Init /\ [][NextGauge]_vars

\* ---------------------------------------------------------------------------
\* The Universal System: configure, send, get_producer, the consume task
\* ---------------------------------------------------------------------------

\* Bound of the exploration: calls made on the Universal System
MaxSystemCalls == 3

\* configure(**kwargs)
Configure ==
  \E config_ok \in BOOLEAN :
    LET r == configure(universal_system, config_ok)
    IN /\ universal_system.last.n < MaxSystemCalls
       /\ universal_system' = Finished(r.self, "configure", r.raised, r.exc, "None", "", FALSE)
       /\ UNCHANGED <<core, container_consumer, connection_manager, get_client_calls, container_producer>>

\* await send(code, data, topic); the await of line 115 is the only place
\* where another task could run, and the call is over before it
Send(codes, topics) ==
  \E code \in codes, topic \in topics \cup {"None"},
     config_ok \in BOOLEAN, resolution \in {"events", "AttributeError"},
     broker_up \in BOOLEAN, publish_ok \in BOOLEAN :
    /\ universal_system.last.n < MaxSystemCalls
    /\ universal_system' =
         send(universal_system, code, topic,
              [config_ok |-> config_ok, resolution |-> resolution,
               broker_up |-> broker_up, publish_ok |-> publish_ok])
    /\ UNCHANGED <<core, container_consumer, connection_manager, get_client_calls, container_producer>>

\* self._manager.get_producer(topic) on a configured system
GetProducer(topics) ==
  \E topic \in topics, broker_up \in BOOLEAN :
    LET r == get_producer(universal_system._manager, universal_system.metrics, topic,
                          broker_up)
    IN /\ universal_system.last.n < MaxSystemCalls
       /\ universal_system._configured
       /\ universal_system' =
            Finished([universal_system EXCEPT !._manager = r.manager, !.metrics = r.metrics],
                     "get_producer", r.raised, r.exc, r.val, topic, broker_up)
       /\ UNCHANGED <<core, container_consumer, connection_manager, get_client_calls, container_producer>>

\* The task of _consume_topic(topic) is started
ConsumeTopic(topics) ==
  \E topic \in topics, broker_up \in BOOLEAN :
    /\ universal_system.last.n < MaxSystemCalls
    /\ universal_system' = _consume_topic(universal_system, topic, broker_up)
    /\ UNCHANGED <<core, container_consumer, connection_manager, get_client_calls, container_producer>>

NextSystem ==
  \/ Configure
  \/ Send({PyInt(21), PyInt(99999), PyList(<<>>)}, {"orders"})
  \/ GetProducer({"orders", "events"})
  \/ ConsumeTopic({"orders", "events"})

SpecSystem == Init /\ [][NextSystem]_vars


\* ---------------------------------------------------------------------------
\* The Container Producer: construction and send_message
\* ---------------------------------------------------------------------------

MaxSends == 3

\* the objects callers pass to send_message
MessageObjects ==
  {PyDict(<< >>),
   PyDict([action |-> PyStr("demo")]),
   PyDict([timestamp |-> PyInt(5)]),
   PyDict([timestamp |-> PyNone, action |-> PyStr("demo")]),
   PyDict([message_id |-> PyStr("m-1")]),
   PyDict([timestamp |-> PyInt(5), message_id |-> PyStr("m-1")]),
   PyList(<<PyStr("timestamp")>>),
   PyInt(7)}

\* ContainerProducer(config), the configuration choosing the two options
NewProducer ==
  \E auto_add_timestamp, auto_add_message_id \in BOOLEAN :
    /\ container_producer.sent = 0
    /\ container_producer' =
         [container_producer EXCEPT
            !.self = ContainerProducer(auto_add_timestamp, auto_add_message_id)]
    /\ UNCHANGED <<core, container_consumer, connection_manager, get_client_calls,
                   universal_system>>

\* producer.send_message(message_data)
SendMessage(messages) ==
  \E message_data \in messages :
    LET r == send_message(container_producer.self, message_data, clock,
                          "uuid-" \o ToString(container_producer.sent + 1))
    IN /\ container_producer.sent < MaxSends
       /\ container_producer' =
            [self |-> r.self, sent |-> container_producer.sent + 1,
             last |-> [given |-> message_data, message_data |-> r.message_data,
                       payload |-> r.payload, raised |-> r.raised, exc |-> r.exc]]
       /\ UNCHANGED <<core, container_consumer, connection_manager, get_client_calls,
                      universal_system>>

NextProducer == NewProducer \/ SendMessage(MessageObjects) \/ Tick

SpecProducer == Init /\ [][NextProducer]_vars

\* ---------------------------------------------------------------------------
\* The Container Consumer's topic list
\* ---------------------------------------------------------------------------

\* an unqualified name, a full topic name, names where "://" is at an end,
\* a name with ":/" only
TopicNames == {"status_updates", "persistent://x/y/z", "://", "pulsar://", "a:/b"}

\* None, the empty list, and every list of up to two of the names
AdditionalTopics ==
  {PyNone} \cup {PyList(l) : l \in {<<>>} \cup {<<a>> : a \in TopicNames}
                                  \cup {<<a, b>> : a, b \in TopicNames}}

ConsumerConfigs ==
  {ContainerConsumerConfig(tenant, namespace, "orders", additional_topics) :
     tenant \in {"t", "public"}, namespace \in {"n", "default"},
     additional_topics \in AdditionalTopics}

\* ContainerConsumer(config, message_handler) for a consumer not yet started
NewConsumer(configs) ==
  \E config \in configs :
    /\ container_consumer.frame.pc = "idle"
    /\ container_consumer' = ContainerConsumer(config)
    /\ UNCHANGED <<core, connection_manager, get_client_calls, universal_system,
                   container_producer>>

NextTopics == NewConsumer(ConsumerConfigs)

SpecTopics == Init /\ [][NextTopics]_vars

\* ---------------------------------------------------------------------------
\* Persistence of the unknown-code records
\* ---------------------------------------------------------------------------

MaxContexts == 11

\* translate_with_learning(code, context) by a caller that passes the number
\* of the sighting as the context, up to limit sightings of a code
TranslateRepeatedly(codes, limit) ==
  \E code \in codes :
    LET seen == IF code.v \in DOMAIN service.unknown_codes.entry
                THEN service.unknown_codes.entry[code.v].count ELSE 0
        context == PyStr("sighting " \o ToString(seen + 1))
    IN /\ seen < limit
       /\ ServiceCall("translate_with_learning", <<code, context>>,
                      translate_with_learning(service, streamlined_translator, code,
                                              context, clock))

\* a code seen often enough for its contexts to be trimmed, a code seen
\* once, saves that succeed or fail, restarts that can or cannot read the file
NextPersistence ==
  \/ TranslateRepeatedly({PyInt(88888)}, MaxContexts)
  \/ TranslateRepeatedly({PyInt(99999)}, 1)
  \/ SaveUnknownCodes
  \/ Restart

SpecPersistence == Init /\ [][NextPersistence]_vars

\* ---------------------------------------------------------------------------
\* CodeMigration: the ranges of a list of codes
\* ---------------------------------------------------------------------------

\* Bound of the exploration: the length of a list of codes
MaxCodes == 3

RECURSIVE ListsOf(_, _)
\* the lists of at most n elements of S
ListsOf(S, n) ==
  IF n = 0 THEN {<<>>}
  ELSE LET shorter == ListsOf(S, n - 1)
       IN shorter \cup {Append(l, x) : l \in shorter, x \in S}

\* CodeMigration._get_ranges(codes)
GetRanges(lists) ==
  \E codes \in lists :
    /\ call' = Call("_get_ranges", <<codes>>)
    /\ ret' = [raised |-> FALSE, val |-> _get_ranges(codes)]
    /\ UNCHANGED <<streamlined_translator, service, cache_file, clock, transport>>

\* lists in any order, with repeats, with neighbours and with gaps
NextMigration == GetRanges(ListsOf({1, 2, 3, 5, 6}, MaxCodes))

SpecMigration == Init /\ [][NextMigration]_vars
\* ---------------------------------------------------------------------------
\* Inputs of the explorations
\* ---------------------------------------------------------------------------
\* every range boundary, the codes next to the outermost ones, a code in the
\* middle of each range
RangeProbes ==
  LET ranges == _build_accurate_range_definitions
  IN {PyInt(n) : n \in {-1, 100000}
                         \cup {ranges[i].start : i \in 1..Len(ranges)}
                         \cup {ranges[i].end : i \in 1..Len(ranges)}
                         \cup {(ranges[i].start + ranges[i].end) \div 2 : i \in 1..Len(ranges)}}

\* registered, unregistered in a range, outside every range
SystemProbes == {PyInt(21), PyInt(99999), PyInt(100000)}

\* a registered code, a code declared twice in AppType, an unregistered code
\* of a range, codes outside every range, values that are no integer
EngineCodes ==
  {PyInt(21), PyInt(16200), PyInt(99999), PyInt(-1), PyStr("21"), PyList(<<>>)}

\* ---------------------------------------------------------------------------
\* Specifications
\* ---------------------------------------------------------------------------
\* the range table
NextRanges ==
  \/ DetermineSystem(RangeProbes)
  \/ GetSystemForCode(SystemProbes)

SpecRanges == Init /\ [][NextRanges]_vars

\* the translation engine
NextEngine ==
  \/ TranslateCode(EngineCodes)
  \/ GetSystemForCode({PyInt(99999)})
  \/ FormatCodeWithContext({PyInt(98)})
  \/ GetCodeInfo({PyInt(21)})
  \/ StatusName({PyInt(30)})
  \/ GetStatistics

SpecEngine == Init /\ [][NextEngine]_vars

\* the whole program at one instant: the engine, the request handler, the
\* Learning Service, the message handler and the cache file
Requests == {PyInt(99999), PyStr("search zapier")}

Messages ==
  {PyDict([code |-> PyInt(99999)]),
   PyDict([type |-> PyStr("PROPOSE_CODE"), concept |-> PyStr("new login"),
           name |-> PyStr("sso_login"), size |-> PyInt(1)])}

Next ==
  \/ TranslateCode({PyInt(99999)})
  \/ GetSystemSummary
  \/ SuggestCodeAllocation({PyStr("new login")}, {PyInt(5)})
  \/ ValidateCodeAddition({PyInt(98)}, {PyStr("new_code")}, {PyStr("universal_foundation")})
  \/ HandleRequest(Requests)
  \/ TranslateWithLearning({PyInt(99999)}, {PyNone})
  \/ ProposeCodeForConcept({PyStr("new login")}, {PyStr("sso_login")}, {PyInt(1)})
  \/ GetUnknownCodesReport
  \/ GetProposalsReport
  \/ ExportProposals
  \/ ServiceGetStatistics
  \/ HandleMessage(Messages)
  \/ SaveUnknownCodes
  \/ Restart

Spec == Init /\ [][Next]_vars

\* validate_code_addition: a registered code, a free code of the first
\* range, codes outside it; names that break each rule on names and names
\* that break none; the system of the codes, another system, no system
ValidateCodes == {PyInt(11), PyInt(98), PyInt(-1), PyInt(1000)}

ValidateNames ==
  {PyStr("dup"), PyStr("new_test_code"), PyStr(""), PyStr(" "), PyStr("_"), PyStr("-"),
   PyStr("a b"), PyStr("active"), PyStr("ACTIVE"), PyStr("bad!"),
   PyStr(Repeat("n", 100)), PyStr(Repeat("n", 101))}

ValidateSystems == {PyStr("universal_foundation"), PyStr("auth_system"), PyStr("nope")}

NextValidate == ValidateCodeAddition(ValidateCodes, ValidateNames, ValidateSystems)

SpecValidate == Init /\ [][NextValidate]_vars

\* suggest_code_allocation: a concept for each of the nine systems the
\* keyword chain can choose, block sizes from one code to the largest allowed
AllocationConcepts ==
  {PyStr("auth"), PyStr("docker"), PyStr("database"), PyStr("neural"), PyStr("workflow"),
   PyStr("monitor"), PyStr("webhook"), PyStr("frontend"), PyStr("zzz")}

AllocationSizes == {PyInt(1), PyInt(2), PyInt(10), PyInt(20), PyInt(50), PyInt(100)}

NextAllocation == SuggestCodeAllocation(AllocationConcepts, AllocationSizes)

SpecAllocation == Init /\ [][NextAllocation]_vars

\* suggest_code_allocation: concepts with one keyword, with keywords of
\* several groups, with a keyword inside another word, in upper case, with
\* no keyword; blank and over-long concepts; sizes inside and outside 1..100
SuggestConcepts ==
  {PyStr("new authentication method"), PyStr("totally generic widget thing"),
   PyStr("api role"), PyStr("Maintain"), PyStr("LOGIN page"), PyStr("docker log"),
   PyStr("mobile ui"), PyStr("backup database"), PyStr("external alert"),
   PyStr("Kubernetes pod"), PyStr("process health"), PyStr("webhook"),
   PyStr("business app"), PyStr("x"), PyStr(Repeat("x", 200)), PyStr(Repeat("x", 201)),
   PyStr(Repeat("x", 199) \o "  "), PyStr(""), PyStr(" "), PyStr(" \t")}

SuggestSizes == {PyInt(-3), PyInt(0), PyInt(1), PyInt(100), PyInt(101)}

NextSuggest == SuggestCodeAllocation(SuggestConcepts, SuggestSizes)

SpecSuggest == Init /\ [][NextSuggest]_vars

\* handle_request: requests of every supported type and of unsupported
\* types; dicts with every operation, with keys missing and with values of
\* the wrong type; lists that are empty, nested, and that mix requests that
\* succeed with requests that fail
RequestValues ==
  {PyInt(11), PyInt(99999), PyInt(-1),
   PyStr("help"), PyStr("stats"), PyStr("summary"), PyStr("search zapier"),
   PyStr("suggest new login"), PyStr("validate 98 new_test_code universal_foundation"),
   PyStr("validate x y z"), PyStr("validate 1 2"), PyStr("98"), PyStr("zapier"),
   PyNone, PyFloat(15),
   PyDict(EmptyDict),
   PyDict([operation |-> PyStr("translate"), code |-> PyInt(11)]),
   PyDict([operation |-> PyStr("translate"), code |-> PyStr("abc")]),
   PyDict([operation |-> PyStr("translate"), code |-> PyList(<<PyInt(1)>>)]),
   PyDict([operation |-> PyStr("translate")]),
   PyDict([operation |-> PyStr("search"), term |-> PyInt(5)]),
   PyDict([operation |-> PyStr("search"), search_term |-> PyStr("zapier")]),
   PyDict([operation |-> PyStr("search")]),
   PyDict([operation |-> PyStr("suggest"), concept |-> PyStr("api"), size |-> PyInt(3)]),
   PyDict([operation |-> PyStr("suggest"), concept |-> PyStr("api"), size |-> PyStr("x")]),
   PyDict([operation |-> PyStr("suggest")]),
   PyDict([operation |-> PyStr("validate"), code |-> PyInt(98), name |-> PyStr("n"),
           system |-> PyStr("auth_system")]),
   PyDict([operation |-> PyStr("validate"), code |-> PyInt(98), name |-> PyInt(5),
           system |-> PyStr("auth_system")]),
   PyDict([operation |-> PyStr("validate"), code |-> PyInt(98)]),
   PyDict([operation |-> PyStr("system_info"), system |-> PyStr("ai_ml")]),
   PyDict([operation |-> PyStr("system_info"), system |-> PyStr("nope")]),
   PyDict([operation |-> PyStr("system_info"), system |-> PyList(<<PyInt(1)>>)]),
   PyDict([operation |-> PyStr("system_info")]),
   PyDict([operation |-> PyStr("range_check"), system |-> PyStr("ai_ml"),
           code |-> PyInt(5000)]),
   PyDict([operation |-> PyStr("range_check"), system |-> PyStr("ai_ml"),
           code |-> PyStr("x")]),
   PyDict([operation |-> PyStr("range_check"), code |-> PyInt(5)]),
   PyDict([operation |-> PyInt(3)]),
   PyList(<<>>),
   PyList(<<PyInt(11), PyList(<<PyNone, PyList(<<>>), PyStr("?")>>),
            PyDict([operation |-> PyInt(3)])>>),
   PyList(<<PyList(<<PyList(<<PyList(<<PyInt(5)>>)>>)>>)>>),
   PyList(<<PyStr("search zapier"),
            PyDict([operation |-> PyStr("translate"), code |-> PyList(<<PyInt(1)>>)])>>),
   PyList(<<PyNone, PyInt(11)>>),
   PyList(<<PyDict([operation |-> PyStr("range_check"), system |-> PyStr("ai_ml"),
                    code |-> PyStr("x")]),
            PyStr("help"), PyFloat(15), PyStr("validate 1 2"), PyInt(-1)>>)}

NextRequests == HandleRequest(RequestValues)

SpecRequests == Init /\ [][NextRequests]_vars

\* handle_request: the commands and words close to them, numeric strings,
\* suggest and validate commands with good and bad arguments, and dict
\* requests with a required key missing or an argument out of bounds
CommandValues ==
  {PyStr("help"), PyStr("?"), PyStr(" HELP "), PyStr("helpful"), PyStr("help me"),
   PyStr("stats"), PyStr("statistics"), PyStr("statsx"),
   PyStr("summary"), PyStr("systems"), PyStr("summaryx"),
   PyStr("search failed"), PyStr("searching"),
   PyStr("suggest new login"), PyStr("suggest " \o Repeat("x", 201)), PyStr("suggest  "),
   PyStr("suggestion"),
   PyStr("validate 98 new_test_code universal_foundation"), PyStr("validate x y z"),
   PyStr("validate 1 2"), PyStr("validate"), PyStr("validated"),
   PyStr("98"), PyStr("0098"), PyStr(" 98"), PyStr("zapier"),
   PyStr("Help"), PyStr("STATS"), PyStr("?help"), PyStr("systems list"), PyStr("42"),
   PyStr("stat"), PyStr("sum"), PyStr("SEARCH Zapier"), PyStr("007"), PyStr("validate 5"),
   PyStr("suggest api"), PyStr("search zapier"), PyStr("validate abc"),
   PyStr("validate 1.5 a auth_system"), PyStr("validate 98 n"),
   PyDict([operation |-> PyStr("suggest"), concept |-> PyStr(Repeat("x", 200))]),
   PyDict([operation |-> PyStr("suggest"), concept |-> PyStr("api"), size |-> PyInt(3)]),
   PyDict([operation |-> PyStr("suggest"), concept |-> PyStr("api"), size |-> PyInt(0)]),
   PyDict([operation |-> PyStr("suggest"), concept |-> PyStr("api"), size |-> PyInt(101)]),
   PyDict([operation |-> PyStr("suggest"), concept |-> PyStr(Repeat("x", 201))]),
   PyDict([operation |-> PyStr("suggest"), concept |-> PyStr("")]),
   PyDict([operation |-> PyStr("suggest"), concept |-> PyStr(" ")]),
   PyDict([operation |-> PyStr("suggest")]),
   PyDict([operation |-> PyStr("translate")]),
   PyDict([operation |-> PyStr("translate"), code |-> PyInt(11)]),
   PyDict([operation |-> PyStr("search")]),
   PyDict([operation |-> PyStr("search"), term |-> PyStr("zapier")]),
   PyDict([operation |-> PyStr("validate"), code |-> PyInt(98), name |-> PyStr("n")]),
   PyDict([operation |-> PyStr("validate"), name |-> PyStr("n"),
           system |-> PyStr("auth_system")]),
   PyDict([operation |-> PyStr("validate"), code |-> PyInt(98),
           system |-> PyStr("auth_system")]),
   PyDict([operation |-> PyStr("validate"), code |-> PyInt(1001), name |-> PyStr("n"),
           system |-> PyStr("auth_system")]),
   PyDict([operation |-> PyStr("system_info")]),
   PyDict([operation |-> PyStr("system_info"), system |-> PyStr("ai_ml")]),
   PyDict([operation |-> PyStr("range_check"), code |-> PyInt(5)]),
   PyDict([operation |-> PyStr("range_check"), system |-> PyStr("ai_ml")]),
   PyDict([operation |-> PyStr("range_check"), system |-> PyStr("ai_ml"),
           code |-> PyInt(5000)])}

NextCommands == HandleRequest(CommandValues)

SpecCommands == Init /\ [][NextCommands]_vars

\* the Learning Service from a start with no cache file: two unregistered
\* codes of a range, a code outside every range, a registered code; with and
\* without a context; time passing between the calls
NextLearning ==
  \/ TranslateWithLearning({PyInt(88888), PyInt(99999), PyInt(-1), PyInt(21)},
                           {PyNone, PyStr("seen in test")})
  \/ GetUnknownCodesReport
  \/ Tick

SpecLearning == Init /\ [][NextLearning]_vars

\* proposals: concepts of two categories, a concept no keyword matches and
\* an empty one; a name that is no string; a size inside and one outside
\* the guard rails; a proposal made by message; reports and exports
ProposalMessages ==
  {PyDict([type |-> PyStr("PROPOSE_CODE"), concept |-> PyStr("new login"),
           name |-> PyStr("by_message"), size |-> PyInt(1)])}

NextProposals ==
  \/ ProposeCodeForConcept({PyStr("new login"), PyStr("payment refund"),
                            PyStr("zzz"), PyStr("")},
                           {PyStr("sso_login"), PyInt(7)},
                           {PyInt(1), PyInt(0)})
  \/ HandleMessage(ProposalMessages)
  \/ GetProposalsReport
  \/ ExportProposals
  \/ Tick

SpecProposals == Init /\ [][NextProposals]_vars


\* the messages a transport hands to the Simple Message Handler: one of each
\* type, a message without a type, operations that fail, types that are not
\* valid, and JSON documents that are no object
MessageValues ==
  {PyDict([code |-> PyInt(21)]),
   PyDict([type |-> PyStr("TRANSLATE"), code |-> PyInt(99999), context |-> PyStr("seen")]),
   PyDict([type |-> PyStr("TRANSLATE"), code |-> PyList(<<>>)]),
   PyDict([type |-> PyStr("PROPOSE_CODE"), concept |-> PyStr("new login"),
           name |-> PyStr("sso_login")]),
   PyDict([type |-> PyStr("PROPOSE_CODE"), concept |-> PyStr("new login"),
           name |-> PyInt(7), size |-> PyInt(1)]),
   PyDict([type |-> PyStr("GET_UNKNOWN_CODES")]),
   PyDict([type |-> PyStr("GET_PROPOSALS")]),
   PyDict([type |-> PyStr("EXPORT_PROPOSALS")]),
   PyDict([type |-> PyStr("STATS")]),
   PyDict([type |-> PyStr("PING")]),
   PyDict([type |-> PyStr("translate"), code |-> PyInt(21)]),
   PyDict([type |-> PyInt(5)]),
   PyInt(5), PyList(<<>>), PyNone}

NextMessages == HandleMessage(MessageValues) \/ Tick

SpecMessages == Init /\ [][NextMessages]_vars

\* the codes of the UniversalStatus group
UniversalStatusCodes ==
  LET g == CHOOSE g \in 1..Len(IntEnumClasses) : IntEnumClasses[g].name = "UniversalStatus"
  IN {PyInt(IntEnumClasses[g].members[k][2]) : k \in 1..Len(IntEnumClasses[g].members)}

\* status_name of every status code; status_code of the name status_name
\* has just returned, and of names no status carries
NextStatus ==
  \/ StatusName(UniversalStatusCodes)
  \/ StatusCode(IF call.op = "status_name" /\ ~ret.raised
                THEN {ret.val}
                ELSE {"NO_SUCH_STATUS", "zapier_connector", ""})

SpecStatus == Init /\ [][NextStatus]_vars
\* ---------------------------------------------------------------------------
\* Properties
\* ---------------------------------------------------------------------------
\* the ranges of the translator's table that contain n
RangesContaining(n) ==
  LET ranges == streamlined_translator._range_definitions
  IN {i \in 1..Len(ranges) : ranges[i].start <= n /\ n <= ranges[i].end}

\* C1: the 22 named ranges are pairwise disjoint and cover 0..99999 without a
\* gap, so _determine_system_from_code and get_system_for_code return, for an
\* integer code, the name of the one range that contains it, and
\* "unknown_range" for an integer below 0 or above 99999.
C1_RangesPartitionCodeSpace ==
  LET ranges == streamlined_translator._range_definitions
  IN /\ Len(ranges) = 22
     /\ ranges[1].start = 0
     /\ ranges[Len(ranges)].end = 99999
     /\ \A i \in 1..Len(ranges) : ranges[i].start <= ranges[i].end
     /\ \A i \in 1..(Len(ranges) - 1) : ranges[i + 1].start = ranges[i].end + 1
     /\ \A i, j \in 1..Len(ranges) : i # j => ranges[i].name # ranges[j].name
     /\ (/\ call.op \in {"_determine_system_from_code", "get_system_for_code"}
         /\ call.args[1].t = "int")
          => /\ ~ret.raised
             /\ LET n == call.args[1].v
                IN IF 0 <= n /\ n <= 99999
                   THEN /\ Cardinality(RangesContaining(n)) = 1
                        /\ \E i \in RangesContaining(n) : ret.val = ranges[i].name
                   ELSE ret.val = "unknown_range"

\* C1 witness: the boundary codes 999, 1999 and 2000 and the codes -1 and
\* 100000 have been classified
C1_BoundaryClassified ==
  /\ call.op = "_determine_system_from_code"
  /\ call.args[1] = PyInt(1999)
  /\ ret = [raised |-> FALSE, val |-> "auth_system"]

\* the members declared in the catalog: <<group, position>>
DeclaredMembers ==
  UNION {{<<g, k>> : k \in 1..Len(IntEnumClasses[g].members)} :
           g \in 1..Len(IntEnumClasses)}

\* C2: no integer value is bound to more than one declared name, and the
\* index built by _discover_all_codes holds one entry per declared member.
C2_CatalogCollisionFree ==
  LET value(m) == IntEnumClasses[m[1]].members[m[2]][2]
  IN /\ \A m1, m2 \in DeclaredMembers : m1 # m2 => value(m1) # value(m2)
     /\ Cardinality(DOMAIN streamlined_translator._code_registry.entry)
          = Cardinality(DeclaredMembers)

\* C3: two consecutive translate_code calls for the same code return the same
\* string, and the second call adds exactly 1 to the cache-hit counter and
\* exactly 1 to the total-translations counter.
C3_TranslateCodeCached ==
  [][(/\ call.op = "translate_code"
      /\ ~ret.raised
      /\ call'.op = "translate_code"
      /\ call'.args = call.args)
       => /\ ret' = ret
          /\ streamlined_translator'._stats.cache_hits
               = streamlined_translator._stats.cache_hits + 1
          /\ streamlined_translator'._stats.total_translations
               = streamlined_translator._stats.total_translations + 1]_vars

\* C3 witness: translate_code has just been called a second time in a row for
\* the same code
C3_SecondCallInARow ==
  /\ call.op = "translate_code"
  /\ call.repeat
  /\ ~ret.raised
  /\ streamlined_translator._stats.total_translations >= 2
  /\ streamlined_translator._stats.cache_hits >= 1

\* the declared members of the catalog whose value is n
MembersWithValue(n) ==
  {m \in DeclaredMembers : IntEnumClasses[m[1]].members[m[2]][2] = n}

\* the system of code n by the range table: the range that contains it, or
\* unknown_range
SystemByRange(n) ==
  LET ranges == streamlined_translator._range_definitions
  IN IF RangesContaining(n) = {} THEN "unknown_range"
     ELSE ranges[CHOOSE i \in RangesContaining(n) : TRUE].name

\* C4: translate_code returns "unknown_{system}_{code}" for an integer code
\* with no catalog entry, system being the range that contains the code or
\* unknown_range, and the lower-cased member name for a registered code;
\* get_system_for_code gives the system used in the synthesized name.
C4_UnknownCodesAreData ==
  (call.op = "translate_code" /\ call.args[1].t = "int")
    => LET n == call.args[1].v
       IN /\ ~ret.raised
          /\ IF MembersWithValue(n) = {}
             THEN /\ ret.val = "unknown_" \o SystemByRange(n) \o "_" \o ToString(n)
                  /\ get_system_for_code(streamlined_translator, call.args[1]).val
                       = SystemByRange(n)
             ELSE \E m \in MembersWithValue(n) :
                    ret.val = Lower(IntEnumClasses[m[1]].members[m[2]][1])

\* C4 witness: translate_code(99999) returned unknown_future_expansion_99999
C4_UnknownCodeTranslated ==
  /\ call.op = "translate_code"
  /\ call.args[1] = PyInt(99999)
  /\ ret = [raised |-> FALSE, val |-> "unknown_future_expansion_99999"]
  /\ get_system_for_code(streamlined_translator, PyInt(99999)).val = "future_expansion"

\* C5: after construction no operation of the engine, the request handler,
\* the Learning Service or the message handler adds, removes or changes an
\* entry of the code registry; a proposal is kept in the proposal map only.
C5_RegistryImmutable ==
  [][/\ streamlined_translator'._code_registry = streamlined_translator._code_registry
     /\ (/\ call'.op \in {"propose_code_for_concept", "handle_message"}
         /\ ~ret'.raised
         /\ "status" \in DOMAIN ret'.val
         /\ ret'.val.status = "proposed")
          => /\ ret'.val.code \in DOMAIN service'.proposals.entry
             /\ ret'.val.code \notin DOMAIN streamlined_translator'._code_registry.entry]_vars

\* C5 witness: a proposal has been made and exported after the unknown codes
\* were saved
C5_ProposedAndExported ==
  /\ call.op = "export_proposals_for_implementation"
  /\ Len(service.proposals.order) > 0
  /\ \A c \in DOMAIN service.proposals.entry :
       c \notin DOMAIN streamlined_translator._code_registry.entry
  /\ cache_file.state = "json"


\* the guard rails of validate_code_addition that code, name and system
\* violate, by their numbers in the contract
ViolatedGuardRails(code, name, system) ==
  LET registry == streamlined_translator._code_registry.entry
      ranges == _build_accurate_range_definitions
      named == {i \in 1..Len(ranges) : ranges[i].name = system}
      allowed == AlnumChars \cup {"_", "-"}
  IN {r \in 1..6 :
        CASE r = 1 -> code \in DOMAIN registry
          [] r = 2 -> named = {}
          [] r = 3 -> \E i \in named : code < ranges[i].start \/ code > ranges[i].end
          [] r = 4 -> name \in {"", " "} \/ Len(name) > 100
          [] r = 5 -> \E c \in DOMAIN registry \ {code} :
                        registry[c].system = system /\ registry[c].name = Lower(name)
          [] r = 6 -> \E i \in 1..Len(name) : CharAt(name, i) \notin allowed}

\* C6: validate_code_addition answers valid=True exactly when no guard rail is
\* violated, with an empty errors list when valid and at least one message
\* per violated guard rail otherwise.
C6_ValidIffNoGuardRailViolated ==
  call.op = "validate_code_addition" =>
    LET violated == ViolatedGuardRails(call.args[1].v, call.args[2].v, call.args[3].v)
    IN /\ ~ret.raised
       /\ ret.val.valid = (violated = {})
       /\ ret.val.valid = (Len(ret.val.errors) = 0)
       /\ Len(ret.val.errors) >= Cardinality(violated)

\* the registered codes of the range start..end
RegisteredIn(start, end) ==
  {c \in DOMAIN streamlined_translator._code_registry.entry : start <= c /\ c <= end}

\* the starts of the blocks of size unregistered codes that lie in start..end
FreeBlockStarts(start, end, size) ==
  {s \in start..(end - size + 1) :
     \A c \in s..(s + size - 1) :
       c \notin DOMAIN streamlined_translator._code_registry.entry}

\* C7: a suggestion names the smallest start of a block of estimated_size
\* unregistered codes inside the range (none when there is no such block),
\* available_space is the capacity of the range minus its registered codes,
\* and a range with less space than requested gives an error carrying
\* available_space and requested_size instead of a suggestion.
C7_SmallestFreeBlock ==
  (call.op = "suggest_code_allocation" /\ ~ret.raised) =>
    LET result == ret.val
        size == call.args[2].v
        range == RangeInfo(_build_accurate_range_definitions, result.suggested_system)[1]
        starts == FreeBlockStarts(result.range_start, result.range_end, size)
    IN /\ "suggested_system" \in DOMAIN result =>
            /\ result.range_start = range.start /\ result.range_end = range.end
            /\ result.available_space
                 = (range.end - range.start + 1)
                     - Cardinality(RegisteredIn(range.start, range.end))
            /\ result.available_space >= size
            /\ IF starts = {} THEN result.suggested_start_code = PyNone
               ELSE /\ result.suggested_start_code.t = "int"
                    /\ result.suggested_start_code.v \in starts
                    /\ \A s \in starts : result.suggested_start_code.v <= s
       /\ "available_space" \in DOMAIN result /\ "error" \in DOMAIN result =>
            /\ result.requested_size = size
            /\ result.available_space < size
            /\ "suggested_start_code" \notin DOMAIN result

\* C7 witness: a block of 20 codes was requested for a range whose first free
\* code is followed by registered codes, so the block starts further on
C7_BlockSkipsUsedCodes ==
  /\ call.op = "suggest_code_allocation"
  /\ call.args[2].v = 20
  /\ ~ret.raised
  /\ "suggested_start_code" \in DOMAIN ret.val
  /\ ret.val.suggested_start_code.t = "int"
  /\ \E c \in ret.val.range_start..(ret.val.suggested_start_code.v - 1) :
       c \notin DOMAIN streamlined_translator._code_registry.entry

\* the keyword groups of the contract in their order, each with its system
KeywordGroups ==
  << <<"auth_system", {"auth", "login", "permission", "role", "security"}>>,
     <<"infrastructure", {"container", "docker", "kubernetes", "infrastructure"}>>,
     <<"data_storage", {"database", "storage", "cache", "backup"}>>,
     <<"ai_ml", {"ai", "ml", "neural", "learning", "agent"}>>,
     <<"business_logic", {"business", "workflow", "process", "rule"}>>,
     <<"monitoring", {"monitor", "health", "metric", "alert", "log"}>>,
     <<"integration", {"api", "integration", "webhook", "external"}>>,
     <<"application", {"ui", "frontend", "mobile", "app"}>> >>

\* the groups that have a keyword occurring in the lower-cased concept
MatchingGroups(concept) ==
  {g \in 1..Len(KeywordGroups) :
     \E word \in KeywordGroups[g][2] : Contains(Lower(concept), word)}

\* C8: a suggestion names the system of the first keyword group, in the fixed
\* order, that has a keyword occurring in the lower-cased concept, and
\* company_specific when no group has one.
C8_FirstMatchWins ==
  (/\ call.op = "suggest_code_allocation"
   /\ ~ret.raised
   /\ "suggested_system" \in DOMAIN ret.val) =>
    LET matching == MatchingGroups(call.args[1].v)
    IN IF matching = {} THEN ret.val.suggested_system = "company_specific"
       ELSE \E g \in matching :
              /\ \A h \in matching : g <= h
              /\ ret.val.suggested_system = KeywordGroups[g][1]

\* C8 witness: a suggestion for a concept that has keywords of two groups
C8_TwoGroupsMatch ==
  /\ call.op = "suggest_code_allocation"
  /\ ~ret.raised
  /\ "suggested_system" \in DOMAIN ret.val
  /\ Cardinality(MatchingGroups(call.args[1].v)) >= 2

\* a concept or size that the input guard rails of the contract reject: a
\* blank concept, a concept of more than 200 characters, a size outside 1..100
BadSuggestInput(concept, size) ==
  \/ \A i \in 1..Len(concept) : CharAt(concept, i) \in WhitespaceChars
  \/ Len(concept) > 200
  \/ size < 1
  \/ size > 100

\* C9: a blank concept, a concept of more than 200 characters and a size
\* outside 1..100 each give a result with an error and no suggestion; any
\* other concept and size is not rejected.
C9_InputGuardRails ==
  call.op = "suggest_code_allocation" =>
    /\ ~ret.raised
    /\ IF BadSuggestInput(call.args[1].v, call.args[2].v)
       THEN /\ "error" \in DOMAIN ret.val
            /\ "suggested_system" \notin DOMAIN ret.val
            /\ "suggested_start_code" \notin DOMAIN ret.val
       ELSE /\ "error" \notin DOMAIN ret.val
            /\ "suggested_system" \in DOMAIN ret.val

\* C9 witness: a concept of exactly 200 characters with the largest size was
\* accepted
C9_LongestConceptAccepted ==
  /\ call.op = "suggest_code_allocation"
  /\ Len(call.args[1].v) = 200
  /\ call.args[2].v = 100
  /\ ~ret.raised
  /\ "suggested_system" \in DOMAIN ret.val

\* C10: handle_request returns a dict for a request of any type and never
\* raises; the status is "success" or "error"; a success carries request_type,
\* an error carries an error message; a request that is no int, str, dict or
\* list gets status "error".
C10_HandleRequestTotal ==
  call.op = "handle_request" =>
    /\ ~ret.raised
    /\ "status" \in DOMAIN ret.val
    /\ ret.val.status \in {"success", "error"}
    /\ ret.val.status = "success" => "request_type" \in DOMAIN ret.val
    /\ ret.val.status = "error" =>
         "error" \in DOMAIN ret.val /\ Len(ret.val.error) > 0
    /\ call.args[1].t \notin {"int", "str", "dict", "list"} => ret.val.status = "error"

\* C10 witness: a dict request whose dispatch raised an exception was
\* answered with an error response
C10_ExceptionAnswered ==
  /\ call.op = "handle_request"
  /\ call.args[1].t = "dict"
  /\ ~ret.raised
  /\ ret.val.status = "error"
  /\ StartsWith(ret.val.error, "Request processing failed: ")

\* C12: a list request is answered as a batch: total_requests is the length
\* of the list; results has one entry per element, in order, each with its
\* position as batch_index and with the status and request_type the element
\* gets as a request of its own; successful + failed = total_requests.
C12_BatchCoversEveryElement ==
  (call.op = "handle_request" /\ call.args[1].t = "list") =>
    LET items == call.args[1].v
        result == ret.val
        Alone(i) == handle_request(streamlined_translator, items[i]).val
    IN /\ ~ret.raised
       /\ result.status = "success"
       /\ result.request_type = "batch"
       /\ result.total_requests = Len(items)
       /\ Len(result.results) = Len(items)
       /\ \A i \in 1..Len(items) :
            /\ result.results[i].batch_index = i - 1
            /\ result.results[i].status = Alone(i).status
            /\ "request_type" \in DOMAIN Alone(i) =>
                 result.results[i].request_type = Alone(i).request_type
       /\ result.summary.successful + result.summary.failed = result.total_requests
       /\ result.summary.failed
            = Cardinality({i \in 1..Len(items) : result.results[i].status = "error"})

\* C12 witness: a batch whose first element failed and whose last element
\* succeeded
C12_FailureThenSuccess ==
  /\ call.op = "handle_request"
  /\ call.args[1].t = "list"
  /\ ~ret.raised
  /\ Len(ret.val.results) >= 2
  /\ ret.val.results[1].status = "error"
  /\ ret.val.results[Len(ret.val.results)].status = "success"

\* the keys a structured request must have for its operation
RequiredKeys(operation) ==
  CASE operation = "translate" -> {"code"}
    [] operation = "suggest" -> {"concept"}
    [] operation = "validate" -> {"code", "name", "system"}
    [] operation = "system_info" -> {"system"}
    [] operation = "range_check" -> {"code", "system"}
    [] OTHER -> {}

\* a request of the InvalidInput kind: a suggest command or operation with a
\* blank or over-long concept or a size outside 1..100, a validate command
\* with fewer than three tokens or a code token that is no number, a
\* structured request that lacks a key its operation requires
InvalidInput(request) ==
  \/ /\ request.t = "str"
     /\ StartsWith(Strip(Lower(request.v)), "suggest ")
     /\ BadSuggestInput(SliceFrom(request.v, 8), 1)
  \/ /\ request.t = "str"
     /\ StartsWith(Strip(Lower(request.v)), "validate ")
     /\ \/ Len(Split(SliceFrom(request.v, 9))) < 3
        \/ ~IsIntLiteral(Split(SliceFrom(request.v, 9))[1])
  \/ /\ request.t = "dict"
     /\ IsStr(DictGet(request, "operation"), "suggest")
     /\ DictGet(request, "concept").t = "str"
     /\ BadSuggestInput(DictGet(request, "concept").v, DictGetOr(request, "size", PyInt(10)).v)
  \/ /\ request.t = "dict"
     /\ DictGet(request, "operation").t = "str"
     /\ \/ RequiredKeys(DictGet(request, "operation").v) \ DOMAIN request.v # {}
        \/ /\ DictGet(request, "operation").v = "search"
           /\ DOMAIN request.v \cap {"term", "search_term"} = {}

\* C11: a request of the InvalidInput kind gets a response whose status is
\* "error" and that carries an error message.
C11_InvalidInputIsError ==
  (call.op = "handle_request" /\ InvalidInput(call.args[1])) =>
    /\ ~ret.raised
    /\ ret.val.status = "error"
    /\ "error" \in DOMAIN ret.val

\* C13: a string request gets the help document only when it is help or ?,
\* the statistics only when it is stats or statistics, the system summary
\* only when it is summary or systems; a string of digits is a code lookup;
\* a string that is none of these and no search, suggest or validate command
\* is a name search for the whole string.
C13_StringDispatch ==
  (call.op = "handle_request" /\ call.args[1].t = "str") =>
    LET request == call.args[1].v
        command == Strip(Lower(request))
        result == ret.val
        IsType(type) == "request_type" \in DOMAIN result /\ result.request_type = type
    IN /\ ~ret.raised
       /\ IsType("help") <=> command \in {"help", "?"}
       /\ IsType("statistics") <=> command \in {"stats", "statistics"}
       /\ IsType("system_summary") <=> command \in {"summary", "systems"}
       /\ IsDigit(request) =>
            IsType("code_translation") /\ result.code = PyInt(DigitsValue(request))
       /\ (/\ command \notin {"help", "?", "stats", "statistics", "summary", "systems"}
           /\ ~IsDigit(request)
           /\ ~StartsWith(command, "search ")
           /\ ~StartsWith(command, "suggest ")
           /\ ~StartsWith(command, "validate "))
            => IsType("name_search") /\ result.search_term = call.args[1]

\* C14: the service starts with no record; a translate_with_learning call
\* for an unregistered code answers "unknown", creates the code's record
\* with count 1 or adds 1 to its count, and reports that count as
\* times_seen, with first_seen <= last_seen; a call for a registered code
\* answers "known"; no call changes the record of another code, and no
\* other operation changes a record.
C14_EverySightingCounted ==
  /\ service.unknown_codes.order = <<>>
  /\ [][LET before == service.unknown_codes.entry
            after == service'.unknown_codes.entry
            code == call'.args[1].v
        IN IF /\ call'.op = "translate_with_learning"
              /\ service'.stats.translations = service.stats.translations + 1
           THEN /\ ~ret'.raised
                /\ IF code \in DOMAIN streamlined_translator._code_registry.entry
                   THEN ret'.val.status = "known" /\ after = before
                   ELSE /\ ret'.val.status = "unknown"
                        /\ DOMAIN after = DOMAIN before \cup {code}
                        /\ after[code].count
                             = (IF code \in DOMAIN before THEN before[code].count ELSE 0) + 1
                        /\ ret'.val.times_seen = after[code].count
                        /\ after[code].first_seen <= after[code].last_seen
                        /\ \A c \in DOMAIN before \ {code} : after[c] = before[c]
           ELSE after = before]_vars

\* C14 witness: a second call for an unregistered code, made later than the
\* first, has answered times_seen = 2
C14_SeenTwice ==
  /\ call.op = "translate_with_learning"
  /\ ~ret.raised
  /\ ret.val.status = "unknown"
  /\ ret.val.times_seen = 2
  /\ service.unknown_codes.entry[call.args[1].v].first_seen
       < service.unknown_codes.entry[call.args[1].v].last_seen

\* C15: a propose_code_for_concept call that stores a proposal answers
\* "proposed" with a code inside the range of the system the concept is
\* categorized into and not in the registry; every proposal ever stored
\* stays stored with status "pending"; get_proposals_report lists every
\* stored proposal with status "pending".
C15_ProposalsStayPending ==
  [][LET before == service.proposals.entry
         after == service'.proposals.entry
         listed == ret'.val.pending_proposals
     IN /\ DOMAIN before \subseteq DOMAIN after
        /\ \A c \in DOMAIN after : after[c].status = "pending"
        /\ call'.op = "propose_code_for_concept"
             /\ service'.stats.proposals_created = service.stats.proposals_created + 1
           => \A system \in {Categorize(Lower(StrOf(call'.args[1])), 1).suggested_system} :
                \A info \in {RangeInfo(streamlined_translator._range_definitions, system)} :
                  /\ ~ret'.raised
                  /\ ret'.val.status = "proposed"
                  /\ ret'.val.system = system
                  /\ info # <<>>
                  /\ info[1].start <= ret'.val.code
                  /\ ret'.val.code <= info[1].end
                  /\ ret'.val.code \notin DOMAIN streamlined_translator._code_registry.entry
                  /\ ret'.val.code \in DOMAIN after
        /\ call'.op = "get_proposals_report"
           => /\ ~ret'.raised
              /\ {listed[i].code : i \in 1..Len(listed)} = DOMAIN after
              /\ \A i \in 1..Len(listed) : listed[i].status = "pending"]_vars

\* C15 witness: the report lists two proposals of different systems
C15_TwoProposalsListed ==
  /\ call.op = "get_proposals_report"
  /\ ~ret.raised
  /\ Len(ret.val.pending_proposals) = 2
  /\ ret.val.pending_proposals[1].system # ret.val.pending_proposals[2].system
  /\ service.stats.proposals_created = 2

C18_SingleFlight ==
  /\ connection_manager.clients <= 1
  /\ (\A t \in Callers : get_client_calls[t].n = 0) => connection_manager.clients = 0
  /\ \A t \in Callers :
       get_client_calls[t].pc \in {"returned", "raised"}
         => /\ get_client_calls[t].pc = "returned"
            /\ get_client_calls[t].val = connection_manager._client
            /\ get_client_calls[t].val # "None"
            /\ connection_manager.clients = 1

\* C20: a send() call ends in one of two ways: it returns, and the
\* sent-messages counter has grown by 1 under status "success" and neither
\* under status "failed" nor has any errors counter grown; or it raises, and
\* the sent-messages counter has grown by 1 under status "failed", not under
\* "success", and the errors counter of send by 1.
C20_SendCountsItsOutcome ==
  [][LET sent(s, status) ==
           Total(s.metrics.messages_sent,
                 {l \in DOMAIN s.metrics.messages_sent : l[3] = status})
         errors(s) == Total(s.metrics.errors, DOMAIN s.metrics.errors)
         send_errors(s) == Count(s.metrics.errors, <<"send", "send">>)
         old == universal_system
         new == universal_system'
     IN new.last.n = old.last.n + 1 /\ new.last.op = "send"
        => \/ /\ ~new.last.raised
              /\ sent(new, "success") = sent(old, "success") + 1
              /\ sent(new, "failed") = sent(old, "failed")
              /\ errors(new) = errors(old)
           \/ /\ new.last.raised
              /\ sent(new, "success") = sent(old, "success")
              /\ sent(new, "failed") = sent(old, "failed") + 1
              /\ send_errors(new) = send_errors(old) + 1]_vars

C21_PayloadIsCallersObjectPlusStamps ==
  LET last == container_producer.last
      config == container_producer.self.config
      given == last.given
      added == (IF config.auto_add_timestamp /\ "timestamp" \notin DOMAIN given.v
                THEN {"timestamp"} ELSE {})
               \cup (IF config.auto_add_message_id /\ "message_id" \notin DOMAIN given.v
                     THEN {"message_id"} ELSE {})
  IN (container_producer.sent > 0 /\ given.t = "dict")
       => /\ ~last.raised
          /\ last.payload.j = "object"
          /\ DOMAIN last.payload.v = DOMAIN given.v \cup added
          /\ \A k \in DOMAIN given.v : last.payload.v[k] = JsonDumps(given.v[k])
          /\ "timestamp" \in added => last.payload.v["timestamp"].j = "number"
          /\ "message_id" \in added => last.payload.v["message_id"].j = "string"
          /\ (~config.auto_add_timestamp /\ ~config.auto_add_message_id)
               => last.payload = JsonDumps(given)

\* a caller's timestamp (None) was kept while a message_id was added
C21_StampedOnlyWhereMissing ==
  LET last == container_producer.last
  IN /\ container_producer.sent > 0
     /\ last.given = PyDict([timestamp |-> PyNone, action |-> PyStr("demo")])
     /\ container_producer.self.config = [auto_add_timestamp |-> TRUE, auto_add_message_id |-> TRUE]
     /\ DOMAIN last.payload.v = {"timestamp", "action", "message_id"}
     /\ last.payload.v["timestamp"] = [j |-> "null"]

\* C22: the topic list of a Container Consumer is its own topic
\* tenant://namespace/container_name first, then one topic for each
\* configured additional topic in the configured order: the topic itself
\* when it contains "://", tenant://namespace/topic when it does not; with
\* additional topics absent or empty it is the own topic alone.
C22_TopicListQualified ==
  LET self == container_consumer.self
      config == self.config
      additional == IF config.additional_topics.t = "list"
                    THEN config.additional_topics.v ELSE <<>>
      prefix == config.tenant \o "://" \o config.namespace \o "/"
  IN /\ Len(self.topics) = 1 + Len(additional)
     /\ self.topics[1] = prefix \o config.container_name
     /\ \A i \in 1..Len(additional) :
          self.topics[i + 1] =
            IF \E k \in 1..(Len(additional[i]) - 2) : SubSeq(additional[i], k, k + 2) = "://"
            THEN additional[i] ELSE prefix \o additional[i]

\* a consumer with an unqualified and a qualified additional topic
C22_MixedTopics ==
  /\ container_consumer.self.config.additional_topics
       = PyList(<<"status_updates", "persistent://x/y/z">>)
  /\ container_consumer.self.topics
       = <<"public://default/orders", "public://default/status_updates", "persistent://x/y/z">>

\* C23: handle_message never raises; a message of type TRANSLATE,
\* PROPOSE_CODE, GET_UNKNOWN_CODES, GET_PROPOSALS, EXPORT_PROPOSALS or STATS
\* gets what the corresponding operation of the Learning Service returns and
\* leaves the service as that operation leaves it; an exception of the
\* operation is returned as status error with its text and the message type;
\* any other type gets status error with the six valid types and leaves the
\* unknown-code records, the proposals and the counters as they were.
C23_HandlerNeverRaises ==
  [][(call'.op = "handle_message" /\ clock' = clock) =>
       LET message == call'.args[1]
           msg_type == DictGetOr(message, "type", PyStr("TRANSLATE"))
           Is(type) == IsStr(msg_type, type)
           operation ==
             IF Is("TRANSLATE")
             THEN translate_with_learning(service, streamlined_translator,
                    DictGet(message, "code"), DictGet(message, "context"), clock)
             ELSE IF Is("PROPOSE_CODE")
             THEN propose_code_for_concept(service, streamlined_translator,
                    DictGetOr(message, "concept", PyStr("")),
                    DictGetOr(message, "name", PyStr("")),
                    DictGetOr(message, "size", PyInt(1)), clock)
             ELSE IF Is("GET_UNKNOWN_CODES")
             THEN get_unknown_codes_report(service, streamlined_translator)
             ELSE IF Is("GET_PROPOSALS")
             THEN get_proposals_report(service, streamlined_translator)
             ELSE IF Is("EXPORT_PROPOSALS")
             THEN export_proposals_for_implementation(service, streamlined_translator, clock)
             ELSE service_get_statistics(service, streamlined_translator)
       IN /\ ~ret'.raised
          /\ message.t = "dict" =>
             IF \E type \in {"TRANSLATE", "PROPOSE_CODE", "GET_UNKNOWN_CODES",
                             "GET_PROPOSALS", "EXPORT_PROPOSALS", "STATS"} : Is(type)
             THEN \A r \in {operation} :
                    /\ service' = r.self
                    /\ IF r.raised
                       THEN ret'.val = [status |-> "error", error |-> r.msg,
                                        message_type |-> msg_type]
                       ELSE IF Is("EXPORT_PROPOSALS")
                       THEN ret'.val = [status |-> "success", code |-> r.val]
                       ELSE ret'.val = r.val
             ELSE /\ ret'.val.status = "error"
                  /\ ret'.val.valid_types = <<"TRANSLATE", "PROPOSE_CODE", "GET_UNKNOWN_CODES",
                                              "GET_PROPOSALS", "EXPORT_PROPOSALS", "STATS">>
                  /\ service'.unknown_codes = service.unknown_codes
                  /\ service'.proposals = service.proposals
                  /\ service'.stats = service.stats]_vars

\* C24: after save_unknown_codes a new Learning Service has, for every
\* unknown-code record in memory at the save, a record with the same code,
\* count, first_seen and last_seen whose contexts are the most recent 10 of
\* the record's contexts in their order; a new service has the counts of the
\* file and nothing recorded since the file was written; a save or a load
\* that fails raises nothing, a save never changes the records in memory and
\* a failed load leaves the new service without records.
C24_RestoredAsLastSaved ==
  [][/\ call'.op = "save_unknown_codes" =>
          /\ ~ret'.raised
          /\ service' = service
          /\ cache_file' # cache_file =>
                (cache_file'.state = "json" =>
                   \A restored \in {RealSelfSustainingService(cache_file', TRUE)} :
                     /\ DOMAIN restored.unknown_codes.entry = DOMAIN service.unknown_codes.entry
                     /\ \A c \in DOMAIN service.unknown_codes.entry :
                          LET saved == service.unknown_codes.entry[c]
                              loaded == restored.unknown_codes.entry[c]
                              n == Len(saved.contexts)
                          IN /\ loaded.code = c
                             /\ loaded.count = saved.count
                             /\ loaded.first_seen = saved.first_seen
                             /\ loaded.last_seen = saved.last_seen
                             /\ loaded.contexts =
                                  IF n <= 10 THEN saved.contexts
                                  ELSE SubSeq(saved.contexts, n - 9, n))
     /\ (call'.op = "__init__" /\ call.op # "__init__") =>
          /\ ~ret'.raised
          /\ \/ service'.unknown_codes = EmptyOrderedDict
             \/ /\ cache_file.state = "json"
                /\ DOMAIN service'.unknown_codes.entry
                     = {IntOfStr(k) : k \in DOMAIN cache_file.data.entry}
                /\ \A c \in DOMAIN service'.unknown_codes.entry :
                     /\ service'.unknown_codes.entry[c].count
                          = cache_file.data.entry[ToString(c)].count
                     /\ service'.unknown_codes.entry[c].contexts
                          = cache_file.data.entry[ToString(c)].contexts
          /\ cache_file.state # "json" => service'.unknown_codes = EmptyOrderedDict
    ]_vars

\* a new service holds a record seen 11 times with the last 10 contexts,
\* and a second record
C24_RestoredWithTenContexts ==
  /\ call.op = "__init__"
  /\ DOMAIN service.unknown_codes.entry = {88888, 99999}
  /\ service.unknown_codes.entry[88888].count = 11
  /\ Len(service.unknown_codes.entry[88888].contexts) = 10
  /\ service.unknown_codes.entry[88888].contexts[1].context = PyStr("sighting 2")
  /\ service.stats.translations = 0

\* C25: once stop() has been called after start_processing was invoked, be
\* it while start_processing is still connecting, the loop takes no further
\* message from the broker: it handles at most the message whose receive
\* was in flight and returns.
C25_StopEndsTheLoop ==
  /\ container_consumer.frame.received_after_stop = 0
  /\ (container_consumer.frame.stop_called /\ container_consumer.frame.pc = "receive")
       => ~container_consumer.self.running

\* C26: for every list of integer codes, in any order and with repeats,
\* _get_ranges returns pairs (start, end) with start <= end, in ascending
\* order, any two of them disjoint and not adjacent, whose union is exactly
\* the set of the codes given; the empty list gives the empty list.
C26_RangesPartitionTheCodes ==
  call.op = "_get_ranges" =>
    LET codes == call.args[1]
        ranges == ret.val
    IN /\ ~ret.raised
       /\ \A i \in 1..Len(ranges) : ranges[i][1] <= ranges[i][2]
       /\ \A i \in 1..(Len(ranges) - 1) : ranges[i][2] + 1 < ranges[i + 1][1]
       /\ UNION {ranges[i][1]..ranges[i][2] : i \in 1..Len(ranges)}
            = {codes[i] : i \in 1..Len(codes)}
       /\ codes = <<>> => ranges = <<>>

\* C27: no successful propose_code_for_concept call is given a code that an
\* earlier successful call of the same service was given; every stored
\* proposal stays stored with its name and concept; the number of stored
\* proposals equals the proposals_created counter.
C27_ProposalsNeverCollide ==
  /\ [](Cardinality(DOMAIN service.proposals.entry) = service.stats.proposals_created)
  /\ [][/\ service'.stats.proposals_created = service.stats.proposals_created + 1
             => /\ ret'.val.status = "proposed"
                /\ ret'.val.code \notin DOMAIN service.proposals.entry
        /\ \A c \in DOMAIN service.proposals.entry :
             /\ c \in DOMAIN service'.proposals.entry
             /\ service'.proposals.entry[c].name = service.proposals.entry[c].name
             /\ service'.proposals.entry[c].concept = service.proposals.entry[c].concept
       ]_vars

\* C28: in every state of the Discovery Engine cache_hits is at most
\* total_translations, total_translations - cache_hits is the number of
\* codes in the translation cache, and every cached name and every cached
\* system is what the lookup without the cache gives for the code: the
\* registry entry's, or unknown_{system}_{code} and the system of the range
\* table.
C28_CountersMatchTheCache ==
  LET self == streamlined_translator
      registry == self._code_registry.entry
  IN /\ self._stats.cache_hits <= self._stats.total_translations
     /\ self._stats.total_translations - self._stats.cache_hits
          = Cardinality(DOMAIN self._translation_cache)
     /\ \A n \in DOMAIN self._translation_cache :
          self._translation_cache[n] =
            IF n \in DOMAIN registry THEN registry[n].name
            ELSE "unknown_" \o SystemByRange(n) \o "_" \o ToString(n)
     /\ \A n \in DOMAIN self._system_cache :
          self._system_cache[n] =
            IF n \in DOMAIN registry THEN registry[n].system ELSE SystemByRange(n)

\* C29: for every code c of the UniversalStatus group,
\* status_code(status_name(c)) = c; status_code of a name that no code of the
\* universal_foundation system carries is 0.
C29_StatusRoundTrip ==
  [][/\ (/\ call.op = "status_name"
         /\ call.args[1] \in UniversalStatusCodes
         /\ ~ret.raised
         /\ call'.op = "status_code"
         /\ call'.args[1] = ret.val)
          => ret' = [raised |-> FALSE, val |-> call.args[1].v]
     /\ (/\ call'.op = "status_code"
         /\ \A n \in DOMAIN streamlined_translator._code_registry.entry :
              LET info == streamlined_translator._code_registry.entry[n]
              IN ~(info.system = "universal_foundation"
                   /\ info.name = Lower(call'.args[1])))
          => ret' = [raised |-> FALSE, val |-> 0]]_vars

====
